---- MODULE Spec2Model ----
(***************************************************************************)
(* A model of the xerxes-protocol host driver: the wire codec of           *)
(* network.py (checksum, send_msg, read_msg, wait_for_reply), its Addr,    *)
(* FutureXerxesNetwork and the registry of XerxesNetwork instances, the    *)
(* Root of hierarchy/root.py, the Leaf of hierarchy/leaves/leaf.py and     *)
(* the typed memory map of memory.py.                                      *)
(*                                                                         *)
(* The serial port is the environment.  Its input side is the sequence rx  *)
(* of what the following read calls will see: a byte 0..255, or GAP, one   *)
(* read-timeout window in which no byte arrived.  An exhausted rx yields   *)
(* nothing for ever.  Its output side is written: the byte strings the     *)
(* most recent call handed to serial.write, one element per write call.    *)
(***************************************************************************)
EXTENDS Integers, Sequences, FiniteSets, TLC

VARIABLES
    opened,     \* XerxesNetwork._opened
    rx,         \* bytes (and timeout windows) the serial port will deliver
    written,    \* what the most recent call wrote to the serial port
    last,       \* outcome of the most recent call: result or exception
    buf,        \* checksum harness: the byte string handed to checksum
    chk,        \* checksum harness: what checksum returned, -1 before the call
    root_addr,  \* XerxesRoot._addr
    mem,        \* the byte buffer behind the memory map's reader and writer
    mlast,      \* outcome of the most recent register access
    alast,      \* outcome of the most recent construction of an Addr
    instances,  \* XerxesNetwork._instances: the channel object of each port
    s_timeout,  \* the read timeout of the serial port, in milliseconds
    olast       \* outcome of the most recent operation on an object

vars == <<opened, rx, written, last, buf, chk, root_addr, mem, mlast, alast,
          instances, s_timeout, olast>>

netVars == <<opened, rx, written, last>>

sumVars == <<buf, chk>>

\* what the calls on the network and its port leave alone
notChannel == <<buf, chk, root_addr, mem, mlast, alast, instances, olast>>

\* what the calls on the network leave alone
notNet == <<notChannel, s_timeout>>

\* no Addr has been constructed
NoAddr ==
    [arg |-> [kind |-> "none", n |-> 0, b |-> <<>>], outcome |-> "ok", value |-> -1,
     bytes |-> <<>>, again |-> -1, equal |-> FALSE]

\* no operation on an object has been made
NoObj ==
    [op |-> "none"]

\* no memory map has been constructed, nor an Addr, nor a channel object
NoMap ==
    mem = <<>> /\ mlast = <<>> /\ alast = NoAddr /\ instances = <<>> /\ olast = NoObj

-----------------------------------------------------------------------------
(* Bounds of the model *)

\* longest payload whose bytes are enumerated
MaxPayload == 3

\* longest raw byte stream the bus injects
MaxRaw == 5

\* longest byte string handed to checksum on its own
MaxSumLen == 3

\* largest number of clock ticks that pass during one blocking call
MaxElapsed == 1

-----------------------------------------------------------------------------
(* Bytes and byte strings *)

Byte == 0..255

\* one read-timeout window without a byte
GAP == -1

\* the start-of-header byte, SOH = b"\x01"
SOH == 1

RECURSIVE Sum(_)
\* Python's sum(message) over a bytes object, summed by halves
Sum(b) ==
    IF Len(b) = 0 THEN 0
    ELSE IF Len(b) = 1 THEN b[1]
    ELSE LET h == Len(b) \div 2
         IN  Sum(SubSeq(b, 1, h)) + Sum(SubSeq(b, h + 1, Len(b)))

RECURSIVE SeqsUpTo(_, _)
\* all sequences over S of length at most n
SeqsUpTo(S, n) ==
    IF n = 0 THEN {<<>>}
    ELSE LET shorter == SeqsUpTo(S, n - 1)
         IN  shorter \cup {Append(s, x) : s \in {t \in shorter : Len(t) = n - 1}, x \in S}

\* n zero bytes
Zeros(n) ==
    [i \in 1..n |-> 0]

\* summary ^= 0xFF on a non-negative Python int: the low eight bits are
\* complemented, the higher bits are kept
Xor255(n) ==
    (n - (n % 256)) + (255 - (n % 256))

\* a mutant of checksum: the one's complement, the increment forgotten
checksum_no_increment(message) ==
    Xor255(Sum(message)) % 256

\* network.checksum: the byte value of the one-byte result
checksum(message) ==
    (Xor255(Sum(message)) + 1) % 256

\* b with bit k complemented
FlipBit(b, k) ==
    IF (b \div (2 ^ k)) % 2 = 1 THEN b - 2 ^ k ELSE b + 2 ^ k

-----------------------------------------------------------------------------
(* The serial port: serial.Serial.read(n) with a read timeout *)

RECURSIVE SerialRead(_, _)
\* read(n): up to n bytes; fewer (also none) when the timeout expires first
SerialRead(s, n) ==
    IF n = 0 \/ s = <<>> THEN [data |-> <<>>, rest |-> s]
    ELSE IF Head(s) = GAP THEN [data |-> <<>>, rest |-> Tail(s)]
    ELSE LET r == SerialRead(Tail(s), n - 1)
         IN  [data |-> <<Head(s)>> \o r.data, rest |-> r.rest]

-----------------------------------------------------------------------------
(* XerxesNetwork.read_msg *)

\* the fields of a call's outcome that hold no value
NoMsg ==
    [source |-> -1, destination |-> -1, length |-> -1, message_id |-> -1,
     payload |-> <<>>, latency |-> -1, crc |-> -1]

\* read_msg ends by raising exception exc; reads lists, per read call, the
\* number of bytes it returned, sohAt is the read call that returned SOH
Raise(exc, rest, reads, sohAt) ==
    [outcome |-> exc, msg |-> NoMsg, rest |-> rest, reads |-> reads, sohAt |-> sohAt]

\* s without its first k items
After(s, k) ==
    SubSeq(s, k + 1, Len(s))

\* k read calls that returned one byte each
Ones(k) ==
    [i \in 1..k |-> 1]

\* the j-th read(1) of a run of read(1) calls on s returns nothing: the
\* stream is exhausted, or the timeout expires first
EmptyRead(s, j) ==
    j > Len(s) \/ s[j] = GAP

\* the SOH scan on input s: "next_byte = read(1); while next_byte != SOH:
\* next_byte = read(1); if it is empty, raise TimeoutError".  The first read
\* is not tested for emptiness, every later one is.  The scan stops at read
\* call stop, the first that returns SOH or (from the second on) nothing.
ScanSOH(s) ==
    LET Stops(j) == (j =< Len(s) /\ s[j] = SOH) \/ (j >= 2 /\ EmptyRead(s, j))
        stop == CHOOSE j \in 1..(Len(s) + 2) :
                    Stops(j) /\ \A i \in 1..(j - 1) : ~Stops(i)
    IN  [found |-> ~EmptyRead(s, stop),
         rest |-> After(s, stop),
         reads |-> [j \in 1..stop |-> IF EmptyRead(s, j) THEN 0 ELSE 1]]

\* the loop over range(msg_len - 7), n = msg_len - 7: one read(1) per data
\* byte, the first read that returns nothing ends it; nothing is read when
\* n <= 0.  got is the number of bytes that arrive before such a read.
ReadData(n, s, reads) ==
    LET want == IF n > 0 THEN n ELSE 0
        got == IF \A j \in 1..want : ~EmptyRead(s, j) THEN want
               ELSE CHOOSE j \in 0..(want - 1) :
                        EmptyRead(s, j + 1) /\ \A i \in 1..j : ~EmptyRead(s, i)
    IN  IF got = want
        THEN [ok |-> TRUE, raw_msg |-> SubSeq(s, 1, want), rest |-> After(s, want),
              reads |-> reads \o Ones(want)]
        ELSE [ok |-> FALSE, raw_msg |-> SubSeq(s, 1, got), rest |-> After(s, got + 1),
              reads |-> (reads \o Ones(got)) \o <<0>>]

\* struct.unpack("H", msg_id_raw)[0] on the little-endian host
UnpackH(raw) ==
    raw[1] + 256 * raw[2]

\* struct.pack("H", code): the two bytes of a 16-bit code, low byte first
PackH(code) ==
    <<code % 256, code \div 256>>

\* a mutant of Residue: the sum is cut to seven bits, "chs %= 0x80"
Residue_mod_128(msg_len, src, dst, msg_id_raw, raw_msg, rcvd_chks) ==
    (SOH + msg_len + src + dst + Sum(msg_id_raw) + Sum(raw_msg) + rcvd_chks) % 128

\* chs of read_msg after "chs %= 0x100": SOH and every byte read after it,
\* the received checksum included, summed modulo 256
Residue(msg_len, src, dst, msg_id_raw, raw_msg, rcvd_chks) ==
    (SOH + msg_len + src + dst + Sum(msg_id_raw) + Sum(raw_msg) + rcvd_chks) % 256

\* read_msg from the message length on, SOH found at read call Len(reads0);
\* int(b"".hex(), 16) on an empty length, source or destination read raises
\* ValueError
ReadAfterSOH(s, reads0, elapsed) ==
    LET sohAt == Len(reads0)
        rl == SerialRead(s, 1)
        reads1 == Append(reads0, Len(rl.data))
    IN  IF rl.data = <<>> THEN Raise("ValueError", rl.rest, reads1, sohAt)
        ELSE
        LET msg_len == rl.data[1]
            rs == SerialRead(rl.rest, 1)
            rd == SerialRead(rs.rest, 1)
            reads2 == reads1 \o <<Len(rs.data), Len(rd.data)>>
        IN  IF rs.data = <<>> \/ rd.data = <<>>
            THEN Raise("ValueError", rd.rest, reads2, sohAt)
            ELSE
            LET rk == SerialRead(rd.rest, 2)
                reads3 == Append(reads2, Len(rk.data))
            IN  IF Len(rk.data) # 2
                THEN Raise("MessageIncomplete", rk.rest, reads3, sohAt)
                ELSE
                LET dt == ReadData(msg_len - 7, rk.rest, reads3)
                IN  IF ~dt.ok
                    THEN Raise("MessageIncomplete", dt.rest, dt.reads, sohAt)
                    ELSE
                    LET rc == SerialRead(dt.rest, 1)
                        reads4 == Append(dt.reads, Len(rc.data))
                    IN  IF Len(rc.data) # 1
                        THEN Raise("MessageIncomplete", rc.rest, reads4, sohAt)
                        ELSE
                        LET chs == Residue(msg_len, rs.data[1], rd.data[1], rk.data,
                                           dt.raw_msg, rc.data[1])
                        IN  IF chs # 0
                            THEN Raise("ChecksumError", rc.rest, reads4, sohAt)
                            ELSE [outcome |-> "ok",
                                  msg |-> [source |-> rs.data[1],
                                           destination |-> rd.data[1],
                                           length |-> msg_len,
                                           message_id |-> UnpackH(rk.data),
                                           payload |-> dt.raw_msg,
                                           latency |-> elapsed,
                                           crc |-> chs],
                                  rest |-> rc.rest, reads |-> reads4, sohAt |-> sohAt]

\* a mutant of read_msg: a scan that finds no SOH is reported as an
\* incomplete message
read_msg_scan_incomplete(s, elapsed) ==
    LET sc == ScanSOH(s)
    IN  IF ~sc.found THEN Raise("MessageIncomplete", sc.rest, sc.reads, 0)
        ELSE ReadAfterSOH(sc.rest, sc.reads, elapsed)

\* a mutant of read_msg: what is pending behind the decoded frame is dropped
read_msg_drops_pending(s, elapsed) ==
    LET sc == ScanSOH(s)
    IN  IF ~sc.found THEN Raise("TimeoutError", sc.rest, sc.reads, 0)
        ELSE [ReadAfterSOH(sc.rest, sc.reads, elapsed) EXCEPT !.rest = <<>>]

\* XerxesNetwork.read_msg on an opened port whose input is s; elapsed is
\* end_time - start_time of the monotonic clock
read_msg(s, elapsed) ==
    LET sc == ScanSOH(s)
    IN  IF ~sc.found THEN Raise("TimeoutError", sc.rest, sc.reads, 0)
        ELSE ReadAfterSOH(sc.rest, sc.reads, elapsed)

-----------------------------------------------------------------------------
(* XerxesNetwork.send_msg *)

\* the largest value (n).to_bytes(1, "little") accepts
MaxLenByte == 255

\* a mutant of Frame: LEN counts the kind bytes apart, as read_msg does
Frame_len_plus_7(source, destination, payload) ==
    LET msg == <<SOH, Len(payload) + 7, source, destination>> \o payload
    IN  Append(msg, checksum(msg))

\* a mutant of Frame: destination before source
Frame_dst_before_src(source, destination, payload) ==
    LET msg == <<SOH, Len(payload) + 5, destination, source>> \o payload
    IN  Append(msg, checksum(msg))

\* SOH | LEN | FROM | DST | payload | checksum, as send_msg builds msg
Frame(source, destination, payload) ==
    LET msg == <<SOH, Len(payload) + 5, source, destination>> \o payload
    IN  Append(msg, checksum(msg))

\* a mutant of send_msg: the limit of its docstring, 255 - 7 payload bytes
send_msg_limit_248(source, destination, payload) ==
    IF Len(payload) + 7 > MaxLenByte
    THEN [outcome |-> "OverflowError", out |-> <<>>]
    ELSE [outcome |-> "ok", out |-> <<Frame(source, destination, payload)>>]

\* XerxesNetwork.send_msg on an opened port: the exception it raises, or "ok"
\* and the byte string it hands to serial.write
send_msg(source, destination, payload) ==
    IF Len(payload) + 5 > MaxLenByte
    THEN [outcome |-> "OverflowError", out |-> <<>>]
    ELSE [outcome |-> "ok", out |-> <<Frame(source, destination, payload)>>]

-----------------------------------------------------------------------------------------------------------------------------------------------------
(* Inputs of the network model *)

\* (source, destination) pairs the calls are made with
AddrPairs == {<<0, 1>>, <<1, 0>>, <<255, 255>>}

\* byte values of the enumerated payloads
PayBytes == {0, 1}

\* the longest payload send_msg accepts, and the shortest it rejects
LongPayloads == {Zeros(MaxLenByte - 5), Zeros(MaxLenByte - 4)}

ShortPayloads == SeqsUpTo(PayBytes, MaxPayload)

\* the (source, destination, payload) triples send_msg is called with
SendInputs ==
    {<<ad[1], ad[2], p>> : ad \in AddrPairs, p \in ShortPayloads}
        \cup {<<255, 255, p>> : p \in LongPayloads}

\* what a raw stream is made of: SOH, other bytes, and timeout windows
RawItems == {GAP, 0, SOH, 7, 248}

\* SOH, LEN, SRC, DST and two kind bytes, and then nothing, for every LEN
HeaderOnly == {<<SOH, n, a, 0, 0, 0>> : n \in Byte, a \in {0, SOH}}

\* SOH, a LEN below 7, SRC, DST, two kind bytes and the checksum of these
ShortLenFrames ==
    {Append(h, checksum(h)) : h \in {<<SOH, n, a, 0, k, 0>> : n \in 0..6, a \in {0, SOH}, k \in {0, 2}}}

\* frames as send_msg writes them, alone and followed by one more byte
WholeFrames ==
    LET frames == {Frame(ad[1], ad[2], p) : ad \in AddrPairs, p \in {<<0, 0>>, <<2, 0, 1>>, <<1, 0, 3, 1, 4>>}}
    IN  frames \cup {Append(f, 0) : f \in frames}

\* a frame that starts to arrive after one read-timeout window
GapThenFrame ==
    {<<GAP>> \o Frame(ad[1], ad[2], <<2, 0>>) : ad \in AddrPairs}

RawStreams ==
    SeqsUpTo(RawItems, MaxRaw) \cup HeaderOnly \cup ShortLenFrames \cup WholeFrames \cup GapThenFrame

\* ghost record of a call: its arguments, or where the bytes it read came from
Tag(kind, source, destination, payload, pos, bit) ==
    [kind |-> kind, source |-> source, destination |-> destination,
     payload |-> payload, pos |-> pos, bit |-> bit]

NoTag == Tag("none", -1, -1, <<>>, 0, -1)

\* the fields of a XerxesPingReply that hold no value
NoPing ==
    [dev_id |-> -1, v_maj |-> -1, v_min |-> -1, latency |-> -1]

\* the outcome of a call: outcome is "ok" or the exception raised, ret the
\* kind of value returned ("none" when an exception was raised), msg the
\* message decoded, ping the ping reply returned, calls the network calls a
\* Root or Leaf operation made, in order
Result(op, outcome, ret, msg, ping, reads, sohAt, tag) ==
    [op |-> op, outcome |-> outcome, ret |-> ret, msg |-> msg, ping |-> ping,
     reads |-> reads, sohAt |-> sohAt, tag |-> tag, calls |-> <<>>]

\* the outcome of a call that returns None or raises
Outcome(op, outcome, tag) ==
    Result(op, outcome, IF outcome = "ok" THEN "None" ELSE "none",
           NoMsg, NoPing, <<>>, 0, tag)

-----------------------------------------------------------------------------
(* Actions of the network model *)

\* the timeout of a serial.Serial nobody has configured: None
NoTimeout == -1

\* xerxes_protocol.defaults.DEFAULT_TIMEOUT, in milliseconds
DEFAULT_TIMEOUT == 20

\* a XerxesNetwork just constructed: _opened = False, nothing on the wire
NetInit ==
    /\ opened = FALSE
    /\ s_timeout = NoTimeout
    /\ rx = <<>> /\ written = <<>>
    /\ last = Outcome("none", "ok", NoTag)
    /\ root_addr = 0
    /\ NoMap

\* XerxesNetwork.init(): the timeout of the port is set, the port is
\* reopened and _opened set
Init_ ==
    /\ opened' = TRUE
    /\ s_timeout' = DEFAULT_TIMEOUT
    /\ written' = <<>>
    /\ last' = Outcome("init", "ok", NoTag)
    /\ UNCHANGED <<rx, notChannel>>

\* a mutant of SendMsg: no test of _opened before the frame is written
SendMsg_without_assert(source, destination, payload) ==
    LET tag == Tag("send", source, destination, payload, 0, -1)
        r == send_msg(source, destination, payload)
    IN  /\ written' = r.out
        /\ last' = Outcome("send_msg", r.outcome, tag)
        /\ UNCHANGED <<opened, rx, notNet>>

\* XerxesNetwork.send_msg(source, destination, payload)
SendMsg(source, destination, payload) ==
    LET tag == Tag("send", source, destination, payload, 0, -1)
    IN  /\ IF ~opened
           THEN /\ written' = <<>>
                /\ last' = Outcome("send_msg", "AssertionError", tag)
           ELSE LET r == send_msg(source, destination, payload)
                IN  /\ written' = r.out
                    /\ last' = Outcome("send_msg", r.outcome, tag)
        /\ UNCHANGED <<opened, rx, notNet>>

\* XerxesNetwork.read_msg() while the bytes arrive (possibly none) are
\* delivered to the port after whatever is still pending in rx
ReadMsg(arrive, tag) ==
    /\ arrive # <<>> => opened
    /\ IF ~opened
       THEN /\ last' = Outcome("read_msg", "AssertionError", tag)
            /\ UNCHANGED rx
       ELSE \E elapsed \in 0..MaxElapsed :
                LET r == read_msg(rx \o arrive, elapsed)
                IN  /\ last' = Result("read_msg", r.outcome,
                                      IF r.outcome = "ok" THEN "XerxesMessage" ELSE "none",
                                      r.msg, NoPing, r.reads, r.sohAt, tag)
                    /\ rx' = r.rest
    /\ written' = <<>>
    /\ UNCHANGED <<opened, notNet>>

\* read_msg on what is pending, nothing new arrives
ReadPending ==
    ReadMsg(<<>>, Tag("pending", -1, -1, rx, Len(rx), -1))

\* the bus echoes the frame the preceding send_msg wrote, and read_msg runs
\* on exactly those bytes
ReadEcho ==
    /\ last.op = "send_msg" /\ written # <<>> /\ rx = <<>>
    /\ ReadMsg(written[1], [last.tag EXCEPT !.kind = "frame"])

\* as ReadEcho, with bit `bit' of byte `pos' of the frame flipped on the wire
ReadCorrupted(pos, bit) ==
    /\ last.op = "send_msg" /\ written # <<>> /\ rx = <<>>
    /\ pos \in 1..Len(written[1])
    /\ ReadMsg([written[1] EXCEPT ![pos] = FlipBit(@, bit)],
               [last.tag EXCEPT !.kind = "flipped", !.pos = pos, !.bit = bit])

\* the byte positions of the frame the bus is about to echo
EchoPositions ==
    IF last.op = "send_msg" /\ written # <<>> THEN 1..Len(written[1]) ELSE {}

Init ==
    /\ NetInit
    /\ buf = <<>> /\ chk = -1

\* the codec on its own frames: send_msg, and read_msg on what it wrote
Next ==
    \/ Init_
    \/ \E in \in SendInputs : SendMsg(in[1], in[2], in[3])
    \/ ReadPending
    \/ ReadEcho
    \/ \E pos \in EchoPositions, bit \in 0..7 : ReadCorrupted(pos, bit)

Spec ==
    Init /\ [][Next]_vars

\* an opened port on which the bus has delivered a raw stream
InitDecode ==
    /\ opened = TRUE
    /\ s_timeout = DEFAULT_TIMEOUT
    /\ rx \in RawStreams
    /\ written = <<>>
    /\ last = Outcome("init", "ok", NoTag)
    /\ root_addr = 0
    /\ NoMap
    /\ buf = <<>> /\ chk = -1

\* read_msg on arbitrary input: each call reads what is pending
NextDecode ==
    \/ Init_
    \/ ReadPending

SpecDecode ==
    InitDecode /\ [][NextDecode]_vars

\* bytes the operating system may hold for a port before init is called
PendingStreams == SeqsUpTo(RawItems, MaxRaw - 2) \cup ShortLenFrames

\* a XerxesNetwork just constructed on a port that already holds bytes
InitUnopened ==
    /\ opened = FALSE
    /\ s_timeout = NoTimeout
    /\ rx \in PendingStreams
    /\ written = <<>>
    /\ last = Outcome("none", "ok", NoTag)
    /\ root_addr = 0
    /\ NoMap
    /\ buf = <<>> /\ chk = -1

\* send_msg and read_msg before and after init
NextUnopened ==
    \/ Init_
    \/ \E ad \in AddrPairs, p \in {<<>>, <<0, 0>>} : SendMsg(ad[1], ad[2], p)
    \/ ReadPending

SpecUnopened ==
    InitUnopened /\ [][NextUnopened]_vars

-----------------------------------------------------------------------------
(* checksum on its own *)

\* byte values of the strings handed to checksum
SumBytes == {0, 1, 127, 128, 255}

\* a byte string is chosen; checksum has not been called on it yet
InitChecksum ==
    /\ NetInit
    /\ buf \in SeqsUpTo(SumBytes, MaxSumLen)
    /\ chk = -1

\* checksum(buf)
Checksum ==
    /\ chk = -1
    /\ chk' = checksum(buf)
    /\ UNCHANGED <<buf, netVars, root_addr, mem, mlast, alast, instances, s_timeout, olast>>

NextChecksum ==
    Checksum

SpecChecksum ==
    InitChecksum /\ [][NextChecksum]_vars

-----------------------------------------------------------------------------
(* XerxesRoot *)

\* wire codes of the message kinds (xerxes_protocol.ids.MsgId)
MsgId_PING == 0

MsgId_PING_REPLY == 1

MsgId_ACK_OK == 2

\* addresses a Root is constructed with
RootAddrs == {0, 30}

\* addresses that are pinged
LeafAddrs == {1, 255}

\* a mutant of PingResult: major and minor version taken in the wrong order
PingResult_versions_swapped(reply, start, end) ==
    IF reply.message_id = MsgId_PING_REPLY
    THEN IF Len(reply.payload) # 3
         THEN [outcome |-> "struct.error", ret |-> "none", ping |-> NoPing]
         ELSE [outcome |-> "ok", ret |-> "XerxesPingReply",
               ping |-> [dev_id |-> reply.payload[1], v_maj |-> reply.payload[3],
                         v_min |-> reply.payload[2], latency |-> end - start]]
    ELSE [outcome |-> "ok", ret |-> "None", ping |-> NoPing]

\* XerxesRoot.ping from "if reply.message_id == MsgId.PING_REPLY" on: the
\* three bytes are unpacked with struct.unpack("BBB", ...), which raises
\* struct.error on any other payload length; in the else branch a
\* NetworkError is constructed and not raised, so the call returns None
PingResult(reply, start, end) ==
    IF reply.message_id = MsgId_PING_REPLY
    THEN IF Len(reply.payload) # 3
         THEN [outcome |-> "struct.error", ret |-> "none", ping |-> NoPing]
         ELSE [outcome |-> "ok", ret |-> "XerxesPingReply",
               ping |-> [dev_id |-> reply.payload[1], v_maj |-> reply.payload[2],
                         v_min |-> reply.payload[3], latency |-> end - start]]
    ELSE [outcome |-> "ok", ret |-> "None", ping |-> NoPing]

\* XerxesRoot.ping(addr) of the Root at self_address: what it writes, what
\* it leaves of the input stream, and how it ends.  start and end are the
\* two readings of the monotonic clock.
ping(self_address, addr, isOpened, stream, start, end, readElapsed) ==
    LET tag == Tag("ping", self_address, addr, PackH(MsgId_PING), 0, -1)
        s == send_msg(self_address, addr, PackH(MsgId_PING))
        r == read_msg(stream, readElapsed)
    IN  IF ~isOpened \/ s.outcome # "ok"
        THEN [out |-> <<>>, rest |-> stream,
              res |-> [Outcome("ping", IF ~isOpened THEN "AssertionError" ELSE s.outcome, tag)
                           EXCEPT !.calls = <<"send_msg">>]]
        ELSE IF r.outcome # "ok"
        THEN [out |-> s.out, rest |-> r.rest,
              res |-> [Result("ping", r.outcome, "none", NoMsg, NoPing, r.reads, r.sohAt, tag)
                           EXCEPT !.calls = <<"send_msg", "read_msg">>]]
        ELSE LET p == PingResult(r.msg, start, end)
             IN  [out |-> s.out, rest |-> r.rest,
                  res |-> [Result("ping", p.outcome, p.ret, r.msg, p.ping, r.reads, r.sohAt, tag)
                               EXCEPT !.calls = <<"send_msg", "read_msg">>]]

\* what the node at address d may put on the bus after a ping from a:
\* nothing, a ping reply with device kind, major and minor version, a ping
\* reply with a payload of another length, a reply of another kind, a reply
\* cut short, a reply with a wrong checksum
PingReplies(a, d) ==
    LET good == {Frame(d, a, PackH(MsgId_PING_REPLY) \o <<dev, maj, min>>) :
                    dev \in {3, 255}, maj \in {1, 2}, min \in {0, 4}}
        odd == {Frame(d, a, PackH(MsgId_PING_REPLY) \o pl) :
                    pl \in {<<>>, <<3, 1>>, <<3, 1, 4, 0>>}}
        other == {Frame(d, a, PackH(k) \o pl) :
                    k \in {MsgId_ACK_OK, MsgId_PING}, pl \in {<<>>, <<3, 1, 4>>}}
        whole == Frame(d, a, PackH(MsgId_PING_REPLY) \o <<3, 1, 4>>)
    IN  {<<>>} \cup good \cup odd \cup other
            \cup {SubSeq(whole, 1, Len(whole) - 1)}
            \cup {[whole EXCEPT ![Len(whole)] = FlipBit(@, 0)]}

\* XerxesRoot.ping(addr); resp is what the bus delivers while ping waits
Ping(addr, resp) ==
    /\ resp # <<>> => opened
    /\ \E start \in 0..MaxElapsed, end \in 0..MaxElapsed :
        /\ start =< end
        /\ \E readElapsed \in 0..(end - start) :
            LET r == ping(root_addr, addr, opened, rx \o resp, start, end, readElapsed)
            IN  /\ written' = r.out
                /\ rx' = r.rest
                /\ last' = r.res
    /\ UNCHANGED <<opened, notNet>>

\* a Root constructed on a network that init has not opened yet
InitRoot ==
    /\ opened = FALSE
    /\ s_timeout = NoTimeout
    /\ rx = <<>> /\ written = <<>>
    /\ last = Outcome("none", "ok", NoTag)
    /\ root_addr \in RootAddrs
    /\ buf = <<>> /\ chk = -1
    /\ NoMap

NextRoot ==
    \/ Init_
    \/ \E addr \in LeafAddrs : \E resp \in PingReplies(root_addr, addr) : Ping(addr, resp)

SpecRoot ==
    InitRoot /\ [][NextRoot]_vars

-----------------------------------------------------------------------------
(* memory.py: register offsets, element types and the memory map *)

GAIN_PV0_OFFSET == 0

GAIN_PV1_OFFSET == 4

GAIN_PV2_OFFSET == 8

GAIN_PV3_OFFSET == 12

OFFSET_PV0_OFFSET == 16

OFFSET_PV1_OFFSET == 20

OFFSET_PV2_OFFSET == 24

OFFSET_PV3_OFFSET == 28

OFFSET_DESIRED_CYCLE_TIME == 32

OFFSET_CONFIG_BITS == 40

OFFSET_ADDRESS == 44

PV0_OFFSET == 256

PV1_OFFSET == 260

PV2_OFFSET == 264

PV3_OFFSET == 268

MEAN_PV0_OFFSET == 272

MEAN_PV1_OFFSET == 276

MEAN_PV2_OFFSET == 280

MEAN_PV3_OFFSET == 284

STDDEV_PV0_OFFSET == 288

STDDEV_PV1_OFFSET == 292

STDDEV_PV2_OFFSET == 296

STDDEV_PV3_OFFSET == 300

MIN_PV0_OFFSET == 304

MIN_PV1_OFFSET == 308

MIN_PV2_OFFSET == 312

MIN_PV3_OFFSET == 316

MAX_PV0_OFFSET == 320

MAX_PV1_OFFSET == 324

MAX_PV2_OFFSET == 328

MAX_PV3_OFFSET == 332

DV0_OFFSET == 336

DV1_OFFSET == 340

DV2_OFFSET == 344

DV3_OFFSET == 348

MEM_UNLOCKED_OFFSET == 384

STATUS_OFFSET == 512

ERROR_OFFSET == 520

UID_OFFSET == 528

OFFSET_NET_CYCLE_TIME == 544

\* the element types: _container is the class isinstance tests against.
\* The module defines "class int(int32_t)" between int32_t and uint16_t, so
\* "_container = int" in uint16_t and uint8_t names that class ("memory.int"),
\* not the builtin int the three types before it name.
ElementTypes ==
    [uint64_t |-> [_container |-> "int", _format |-> "Q", _length |-> 8],
     uint32_t |-> [_container |-> "int", _format |-> "I", _length |-> 4],
     int32_t |-> [_container |-> "int", _format |-> "i", _length |-> 4],
     uint16_t |-> [_container |-> "memory.int", _format |-> "H", _length |-> 2],
     uint8_t |-> [_container |-> "memory.int", _format |-> "B", _length |-> 1],
     float_t |-> [_container |-> "float", _format |-> "f", _length |-> 4],
     double_t |-> [_container |-> "float", _format |-> "d", _length |-> 8]]

\* a mutant of MemoryElement: the register sits at half its offset
MemoryElement_offset_halved(mem_addr, mem_type, write_access) ==
    [mem_addr |-> mem_addr \div 2, mem_type |-> mem_type, write_access |-> write_access]

\* dataclass MemoryElement(mem_addr, mem_type, write_access)
MemoryElement(mem_addr, mem_type, write_access) ==
    [mem_addr |-> mem_addr, mem_type |-> mem_type, write_access |-> write_access]

\* class MemoryNonVolatile, by property name (the key without its underscore)
MemoryNonVolatile ==
    [
     gain_pv0 |-> MemoryElement(GAIN_PV0_OFFSET, "float_t", TRUE),
     gain_pv1 |-> MemoryElement(GAIN_PV1_OFFSET, "float_t", TRUE),
     gain_pv2 |-> MemoryElement(GAIN_PV2_OFFSET, "float_t", TRUE),
     gain_pv3 |-> MemoryElement(GAIN_PV3_OFFSET, "float_t", TRUE),
     offset_pv0 |-> MemoryElement(OFFSET_PV0_OFFSET, "float_t", TRUE),
     offset_pv1 |-> MemoryElement(OFFSET_PV1_OFFSET, "float_t", TRUE),
     offset_pv2 |-> MemoryElement(OFFSET_PV2_OFFSET, "float_t", TRUE),
     offset_pv3 |-> MemoryElement(OFFSET_PV3_OFFSET, "float_t", TRUE),
     desired_cycle_time |-> MemoryElement(OFFSET_DESIRED_CYCLE_TIME, "uint32_t", TRUE),
     device_address |-> MemoryElement(OFFSET_ADDRESS, "uint8_t", TRUE),
     config |-> MemoryElement(OFFSET_CONFIG_BITS, "uint8_t", TRUE),
     net_cycle_time_us |-> MemoryElement(OFFSET_NET_CYCLE_TIME, "uint32_t", TRUE)
    ]

\* class MemoryVolatile
MemoryVolatile ==
    [
     pv0 |-> MemoryElement(PV0_OFFSET, "float_t", TRUE),
     pv1 |-> MemoryElement(PV1_OFFSET, "float_t", TRUE),
     pv2 |-> MemoryElement(PV2_OFFSET, "float_t", TRUE),
     pv3 |-> MemoryElement(PV3_OFFSET, "float_t", TRUE),
     mean_pv0 |-> MemoryElement(MEAN_PV0_OFFSET, "float_t", TRUE),
     mean_pv1 |-> MemoryElement(MEAN_PV1_OFFSET, "float_t", TRUE),
     mean_pv2 |-> MemoryElement(MEAN_PV2_OFFSET, "float_t", TRUE),
     mean_pv3 |-> MemoryElement(MEAN_PV3_OFFSET, "float_t", TRUE),
     std_dev_pv0 |-> MemoryElement(STDDEV_PV0_OFFSET, "float_t", TRUE),
     std_dev_pv1 |-> MemoryElement(STDDEV_PV1_OFFSET, "float_t", TRUE),
     std_dev_pv2 |-> MemoryElement(STDDEV_PV2_OFFSET, "float_t", TRUE),
     std_dev_pv3 |-> MemoryElement(STDDEV_PV3_OFFSET, "float_t", TRUE),
     min_pv0 |-> MemoryElement(MIN_PV0_OFFSET, "float_t", TRUE),
     min_pv1 |-> MemoryElement(MIN_PV1_OFFSET, "float_t", TRUE),
     min_pv2 |-> MemoryElement(MIN_PV2_OFFSET, "float_t", TRUE),
     min_pv3 |-> MemoryElement(MIN_PV3_OFFSET, "float_t", TRUE),
     max_pv0 |-> MemoryElement(MAX_PV0_OFFSET, "float_t", TRUE),
     max_pv1 |-> MemoryElement(MAX_PV1_OFFSET, "float_t", TRUE),
     max_pv2 |-> MemoryElement(MAX_PV2_OFFSET, "float_t", TRUE),
     max_pv3 |-> MemoryElement(MAX_PV3_OFFSET, "float_t", TRUE),
     dv0 |-> MemoryElement(DV0_OFFSET, "uint32_t", TRUE),
     dv1 |-> MemoryElement(DV1_OFFSET, "uint32_t", TRUE),
     dv2 |-> MemoryElement(DV2_OFFSET, "uint32_t", TRUE),
     dv3 |-> MemoryElement(DV3_OFFSET, "uint32_t", TRUE),
     memory_lock |-> MemoryElement(MEM_UNLOCKED_OFFSET, "uint32_t", TRUE)
    ]

\* class MemoryReadOnly
MemoryReadOnly ==
    [
     status |-> MemoryElement(STATUS_OFFSET, "uint64_t", FALSE),
     error |-> MemoryElement(ERROR_OFFSET, "uint64_t", FALSE),
     uid |-> MemoryElement(UID_OFFSET, "uint64_t", FALSE)
    ]

\* class XerxesMemoryMap(MemoryNonVolatile, MemoryVolatile, MemoryReadOnly)
XerxesMemoryMap ==
    (MemoryNonVolatile @@ MemoryVolatile) @@ MemoryReadOnly

\* the element type of register name
TypeOf(name) ==
    ElementTypes[XerxesMemoryMap[name].mem_type]

-----------------------------------------------------------------------------
(* struct.pack / struct.unpack for the formats of the element types *)

\* Host values. An int is n. A float is a double: sign, unbiased exponent exp
\* and a 52 bit fraction kept as its upper 23 bits (frac) and lower 29 bits
\* (lo); exp = ZeroExp is zero or a double denormal, exp = InfExp is inf or nan.
\* "memory.int" is an instance of the class int of memory.py.
IntV(n) ==
    [kind |-> "int", n |-> n, sign |-> 0, exp |-> 0, frac |-> 0, lo |-> 0]

FloatV(sign, exp, frac, lo) ==
    [kind |-> "float", n |-> 0, sign |-> sign, exp |-> exp, frac |-> frac, lo |-> lo]

MemIntV ==
    [kind |-> "memory.int", n |-> 0, sign |-> 0, exp |-> 0, frac |-> 0, lo |-> 0]

NoVal ==
    [kind |-> "none", n |-> 0, sign |-> 0, exp |-> 0, frac |-> 0, lo |-> 0]

ZeroExp == -1023

InfExp == 1024

RECURSIVE Pow2(_)
Pow2(k) ==
    IF k = 0 THEN 1 ELSE 2 * Pow2(k - 1)

TwoTo23 ==
    Pow2(23)

TwoTo28 ==
    Pow2(28)

\* the w low bytes of n, least significant first (two's complement for n < 0)
RECURSIVE ToLE(_, _)
ToLE(n, w) ==
    IF w = 0 THEN <<>> ELSE <<n % 256>> \o ToLE(n \div 256, w - 1)

\* the unsigned integer of little-endian bytes
RECURSIVE FromLE(_)
FromLE(b) ==
    IF b = <<>> THEN 0 ELSE b[1] + 256 * FromLE(Tail(b))

\* the signed integer of little-endian bytes
FromLESigned(b) ==
    IF b[Len(b)] >= 128
    THEN FromLE([b EXCEPT ![Len(b)] = b[Len(b)] - 256])
    ELSE FromLE(b)

\* the 32 bit pattern sign | biased exponent | fraction as 4 bytes; bits is
\* biased * 2^23 + fraction
F32Bytes(sign, bits) ==
    ToLE(bits, 3) \o <<(bits \div 16777216) + 128 * sign>>

\* a double rounded to the nearest float (ties to even): the 31 bits below the
\* sign, or -1 when the rounded value is beyond the float range
RoundToF32(v) ==
    IF v.exp = InfExp THEN 255 * TwoTo23 + (IF v.frac = 0 /\ v.lo # 0 THEN 4194304 ELSE v.frac)
    ELSE IF v.exp = ZeroExp \/ v.exp < -150 THEN 0
    ELSE IF v.exp >= -126
    THEN LET up == v.lo > TwoTo28 \/ (v.lo = TwoTo28 /\ v.frac % 2 = 1)
             bits == (v.exp + 127) * TwoTo23 + v.frac + (IF up THEN 1 ELSE 0)
         IN  IF bits >= 255 * TwoTo23 THEN -1 ELSE bits
    ELSE LET shift == -126 - v.exp
             m24 == TwoTo23 + v.frac
             q == m24 \div Pow2(shift)
             rem == m24 % Pow2(shift)
             half == Pow2(shift - 1)
             up == \/ rem > half
                   \/ rem = half /\ v.lo > 0
                   \/ rem = half /\ v.lo = 0 /\ q % 2 = 1
         IN  q + (IF up THEN 1 ELSE 0)

\* the 8 bytes of a double
F64Bytes(v) ==
    LET biased == v.exp + 1023
    IN  <<v.lo % 256, (v.lo \div 256) % 256, (v.lo \div 65536) % 256,
          (v.lo \div 16777216) + 32 * (v.frac % 8),
          (v.frac \div 8) % 256, (v.frac \div 2048) % 256,
          (v.frac \div 524288) + 16 * (biased % 16),
          (biased \div 16) + 128 * v.sign>>

\* int to float conversion of struct.pack for "f" and "d" (|n| below 2^24)
IntToFloat(n) ==
    IF n = 0 THEN FloatV(0, ZeroExp, 0, 0)
    ELSE LET a == IF n < 0 THEN -n ELSE n
             e == CHOOSE k \in 0..23 : Pow2(k) =< a /\ a < 2 * Pow2(k)
         IN  FloatV(IF n < 0 THEN 1 ELSE 0, e, (a - Pow2(e)) * Pow2(23 - e), 0)

\* struct.pack(format, value): the bytes, or the exception it raises
struct_pack(format, value) ==
    LET Packed(b) == [outcome |-> "ok", bytes |-> b]
        Fails(exc) == [outcome |-> exc, bytes |-> <<>>]
        isInt == value.kind = "int"
        asFloat == IF isInt THEN IntToFloat(value.n) ELSE value
    IN  IF format \in {"B", "H", "I", "Q", "i"}
        THEN IF ~isInt THEN Fails("struct.error")
             ELSE IF format = "B" THEN (IF value.n \in 0..255 THEN Packed(ToLE(value.n, 1)) ELSE Fails("struct.error"))
             ELSE IF format = "H" THEN (IF value.n \in 0..65535 THEN Packed(ToLE(value.n, 2)) ELSE Fails("struct.error"))
             ELSE IF format = "I" THEN (IF value.n >= 0 THEN Packed(ToLE(value.n, 4)) ELSE Fails("struct.error"))
             ELSE IF format = "Q" THEN (IF value.n >= 0 THEN Packed(ToLE(value.n, 4) \o Zeros(4)) ELSE Fails("struct.error"))
             ELSE Packed(ToLE(value.n, 4))
        ELSE IF value.kind \notin {"int", "float"} THEN Fails("struct.error")
        ELSE IF format = "f"
        THEN LET bits == RoundToF32(asFloat)
             IN  IF bits = -1 THEN Fails("OverflowError") ELSE Packed(F32Bytes(asFloat.sign, bits))
        ELSE Packed(F64Bytes(asFloat))

\* the double a float bit pattern stands for
F32Value(b) ==
    LET sign == b[4] \div 128
        biased == (b[4] % 128) * 2 + (b[3] \div 128)
        frac == (b[3] % 128) * 65536 + b[2] * 256 + b[1]
    IN  IF biased = 255 THEN FloatV(sign, InfExp, frac, 0)
        ELSE IF biased > 0 THEN FloatV(sign, biased - 127, frac, 0)
        ELSE IF frac = 0 THEN FloatV(sign, ZeroExp, 0, 0)
        ELSE LET p == CHOOSE k \in 0..22 : Pow2(k) =< frac /\ frac < 2 * Pow2(k)
             IN  FloatV(sign, p - 149, (frac - Pow2(p)) * Pow2(23 - p), 0)

F64Value(b) ==
    LET biased == (b[8] % 128) * 16 + (b[7] \div 16)
    IN  FloatV(b[8] \div 128, biased - 1023,
               (b[7] % 16) * 524288 + b[6] * 2048 + b[5] * 8 + (b[4] \div 32),
               (b[4] % 32) * 16777216 + b[3] * 65536 + b[2] * 256 + b[1])

FormatSize ==
    [B |-> 1, H |-> 2, I |-> 4, i |-> 4, Q |-> 8, f |-> 4, d |-> 8]

\* struct.unpack(format, data)[0]: the value, or the exception it raises.
\* Unsigned contents stay below 2^31.
struct_unpack(format, data) ==
    LET Got(v) == [outcome |-> "ok", value |-> v]
    IN  IF Len(data) # FormatSize[format] THEN [outcome |-> "struct.error", value |-> NoVal]
        ELSE IF format = "i" THEN Got(IntV(FromLESigned(data)))
        ELSE IF format = "f" THEN Got(F32Value(data))
        ELSE IF format = "d" THEN Got(F64Value(data))
        ELSE Got(IntV(FromLE(data)))

-----------------------------------------------------------------------------
(* memory.py: XerxesMemoryType, the properties its constructor installs *)

\* every byte offset a register of the map covers
MemBytes ==
    UNION {XerxesMemoryMap[name].mem_addr .. (XerxesMemoryMap[name].mem_addr + TypeOf(name)._length - 1) :
           name \in DOMAIN XerxesMemoryMap}

\* the reader the map is constructed with: length bytes of the buffer at addr
read_reg_f(m, addr, length) ==
    [i \in 1..length |-> m[addr + i - 1]]

\* the writer the map is constructed with: it stores the bytes and returns
\* True when it acknowledges, and returns False and stores nothing otherwise
write_reg_f(m, addr, data, ack) ==
    [mem |-> IF ack
             THEN [o \in DOMAIN m |-> IF o \in addr..(addr + Len(data) - 1) THEN data[o - addr + 1] ELSE m[o]]
             ELSE m,
     ret |-> IF ack THEN "True" ELSE "False"]

\* isinstance(value, container)
IsInstance(value, container) ==
    value.kind = container

\* truth value of what a call returned
Truthy(ret) ==
    ret = "True"

\* __read_mem_elem answering from the contents the map was constructed over
\* instead of from what the reader supplies on this call
read_mem_elem_cached(mem_elem, m) ==
    LET type == ElementTypes[mem_elem.mem_type]
        _r == Zeros(type._length)
        u == struct_unpack(type._format, _r)
    IN  [outcome |-> u.outcome, value |-> u.value,
         rcalls |-> <<<<mem_elem.mem_addr, type._length>>>>]

\* __read_mem_elem: one reader call, then struct.unpack of what it returned
read_mem_elem(mem_elem, m) ==
    LET type == ElementTypes[mem_elem.mem_type]
        _r == read_reg_f(m, mem_elem.mem_addr, type._length)
        u == struct_unpack(type._format, _r)
    IN  [outcome |-> u.outcome, value |-> u.value,
         rcalls |-> <<<<mem_elem.mem_addr, type._length>>>>]

\* __write_mem_elem: struct.pack, then one writer call whose return value is
\* dropped; the method has no return statement
write_mem_elem(mem_elem, value, m, ack) ==
    LET type == ElementTypes[mem_elem.mem_type]
        _bv == struct_pack(type._format, value)
        w == write_reg_f(m, mem_elem.mem_addr, _bv.bytes, ack)
    IN  IF _bv.outcome # "ok"
        THEN [outcome |-> _bv.outcome, ret |-> "None", mem |-> m, wcalls |-> <<>>]
        ELSE [outcome |-> "ok", ret |-> "None", mem |-> w.mem,
              wcalls |-> <<<<mem_elem.mem_addr, _bv.bytes>>>>]

\* a property that takes a setter whatever the element's write access
Property_always_settable(attr) ==
    [fget |-> TRUE, fset |-> TRUE]

\* property(make_fget(attr), make_fset(attr) if attr.can_write() else None)
Property(attr) ==
    [fget |-> TRUE, fset |-> attr.write_access]

\* reading the property name of a constructed map
fget(name, m) ==
    IF name \notin DOMAIN XerxesMemoryMap
    THEN [outcome |-> "AttributeError", value |-> NoVal, rcalls |-> <<>>]
    ELSE read_mem_elem(XerxesMemoryMap[name], m)

\* assigning value to the property name of a constructed map; a name that is
\* no property becomes a plain attribute of the instance
setter(name, value, m, ack) ==
    LET _attr == XerxesMemoryMap[name]
        Raises(exc, w) == [outcome |-> exc, mem |-> w.mem, wcalls |-> w.wcalls]
        none == [mem |-> m, wcalls |-> <<>>]
        w == write_mem_elem(_attr, value, m, ack)
    IN  IF name \notin DOMAIN XerxesMemoryMap THEN Raises("ok", none)
        ELSE IF ~Property(_attr).fset THEN Raises("AttributeError", none)
        ELSE IF ~IsInstance(value, ElementTypes[_attr.mem_type]._container) THEN Raises("AssertionError", none)
        ELSE IF w.outcome # "ok" THEN Raises(w.outcome, w)
        ELSE IF ~Truthy(w.ret) THEN Raises("RuntimeError", w)
        ELSE Raises("ok", w)

\* the registers and host values the accesses are drawn from
ExercisedRegs ==
    {"gain_pv0", "desired_cycle_time", "device_address", "pv0", "uid", "no_such_register"}

\* 1.5, -2.0, 0.1 (no float), 5, 258, -1, an instance of memory.int
HostValues ==
    {FloatV(0, 0, 4194304, 0), FloatV(1, 1, 0, 0), FloatV(0, -4, 5033164, 429496730),
     IntV(5), IntV(258), IntV(-1), MemIntV}

\* contents of the uid register before the first access
UidContents ==
    {0, 258}

NoAccess ==
    [op |-> "none", name |-> "", value |-> NoVal, ack |-> FALSE, outcome |-> "ok",
     ret |-> NoVal, rcalls |-> <<>>, wcalls |-> <<>>]

\* XerxesMemoryMap(reader, writer) over a zeroed buffer that holds a uid
InitMemory ==
    /\ opened = FALSE
    /\ s_timeout = NoTimeout
    /\ rx = <<>> /\ written = <<>>
    /\ last = Outcome("none", "ok", NoTag)
    /\ root_addr = 0
    /\ buf = <<>> /\ chk = -1
    /\ \E uid \in UidContents :
          mem = write_reg_f([o \in MemBytes |-> 0], UID_OFFSET, ToLE(uid, 4) \o Zeros(4), TRUE).mem
    /\ mlast = NoAccess
    /\ alast = NoAddr
    /\ instances = <<>> /\ olast = NoObj

\* value = map.<name>
Get(name) ==
    /\ LET r == fget(name, mem)
       IN  mlast' = [op |-> "get", name |-> name, value |-> NoVal, ack |-> FALSE,
                     outcome |-> r.outcome, ret |-> r.value, rcalls |-> r.rcalls, wcalls |-> <<>>]
    /\ UNCHANGED <<mem, netVars, sumVars, root_addr, alast, instances, s_timeout, olast>>

\* map.<name> = value, with a writer that acknowledges or not
Set(name, value, ack) ==
    /\ LET r == setter(name, value, mem, ack)
       IN  /\ mem' = r.mem
           /\ mlast' = [op |-> "set", name |-> name, value |-> value, ack |-> ack,
                        outcome |-> r.outcome, ret |-> NoVal, rcalls |-> <<>>, wcalls |-> r.wcalls]
    /\ UNCHANGED <<netVars, sumVars, root_addr, alast, instances, s_timeout, olast>>

NextMemory ==
    \/ \E name \in ExercisedRegs : Get(name)
    \/ \E name \in ExercisedRegs, value \in HostValues, ack \in BOOLEAN : Set(name, value, ack)

SpecMemory ==
    InitMemory /\ [][NextMemory]_vars

-----------------------------------------------------------------------------
(* hierarchy/root.py: send_msg, broadcast, sync; hierarchy/leaves/leaf.py:
   exchange, write_reg, write_reg_net, reset_soft *)

\* wire codes of xerxes_protocol.ids.MsgId
MsgId_RESET_SOFT == 255

MsgId_SYNC == 257

MsgId_WRITE == 512

MsgId_READ_REQ == 513

\* BROADCAST_ADDR = Addr(DEFAULT_BROADCAST_ADDRESS)
BROADCAST_ADDR == 255

\* XerxesNetwork.send_msg on a port that is opened or not
network_send_msg(isOpened, source, destination, payload) ==
    IF ~isOpened
    THEN [outcome |-> "AssertionError", out |-> <<>>]
    ELSE send_msg(source, destination, payload)

\* XerxesRoot.send_msg(destination, payload) of the Root at self_address
root_send_msg(self_address, isOpened, destination, payload) ==
    network_send_msg(isOpened, self_address, destination, payload)

\* XerxesRoot.broadcast(payload)
broadcast(self_address, isOpened, payload) ==
    network_send_msg(isOpened, self_address, BROADCAST_ADDR, payload)

\* XerxesRoot.sync()
sync(self_address, isOpened) ==
    broadcast(self_address, isOpened, PackH(MsgId_SYNC))

\* Leaf.reset_soft() of the Leaf at address
reset_soft(address, self_address, isOpened) ==
    root_send_msg(self_address, isOpened, address, PackH(MsgId_RESET_SOFT))

\* wait_for_reply once read_msg has ended with rply: the timeout of the port
\* is set to old_t again only on the lines after the call of read_msg, which
\* an exception of read_msg does not reach
Waited(rply, old_t, timeout) ==
    [rply |-> rply,
     timeout |-> IF rply.outcome = "ok" THEN old_t ELSE timeout]

\* XerxesNetwork.wait_for_reply(timeout): the timeout of the port is kept in
\* old_t and set to timeout, and read_msg is called
wait_for_reply(stream, elapsed, old_t, timeout) ==
    Waited(read_msg(stream, elapsed), old_t, timeout)

\* the timeout write_reg waits with: 0.01 s for each byte of the payload
WriteTimeout(payload) ==
    10 * Len(payload)

\* what a call did, and the timeout of the port it left
WithTimeout(did, timeout) ==
    [out |-> did.out, rest |-> did.rest, res |-> did.res, timeout |-> timeout]

\* what a call of a Root or Leaf operation did: the frames written, what is
\* left of the input, and the outcome with the network calls made in order
Did(op, tag, out, rest, outcome, ret, r, calls) ==
    [out |-> out, rest |-> rest,
     res |-> [Result(op, outcome, ret, r.msg, NoPing, r.reads, r.sohAt, tag)
                  EXCEPT !.calls = calls]]

\* a read that did not take place
NoRead ==
    [msg |-> NoMsg, reads |-> <<>>, sohAt |-> 0]

\* a mutant of exchange: after a TimeoutError the request is sent and the
\* reply awaited once more
exchange_retry_on_timeout(address, self_address, isOpened, payload, stream, elapsed) ==
    LET tag == Tag("exchange", self_address, address, payload, 0, -1)
        s == root_send_msg(self_address, isOpened, address, payload)
        r == read_msg(stream, elapsed)
        r2 == read_msg(r.rest, elapsed)
    IN  IF s.outcome # "ok"
        THEN Did("exchange", tag, <<>>, stream, s.outcome, "none", NoRead, <<"send_msg">>)
        ELSE IF r.outcome = "TimeoutError"
        THEN Did("exchange", tag, s.out \o s.out, r2.rest, r2.outcome,
                 IF r2.outcome = "ok" THEN "XerxesMessage" ELSE "none", r2,
                 <<"send_msg", "read_msg", "send_msg", "read_msg">>)
        ELSE Did("exchange", tag, s.out, r.rest, r.outcome,
                 IF r.outcome = "ok" THEN "XerxesMessage" ELSE "none", r,
                 <<"send_msg", "read_msg">>)

\* Leaf.exchange(payload) of the Leaf at address: root.send_msg, then
\* root.network.read_msg, whose result or exception is the call's
exchange(address, self_address, isOpened, payload, stream, elapsed) ==
    LET tag == Tag("exchange", self_address, address, payload, 0, -1)
        s == root_send_msg(self_address, isOpened, address, payload)
        r == read_msg(stream, elapsed)
    IN  IF s.outcome # "ok"
        THEN Did("exchange", tag, <<>>, stream, s.outcome, "none", NoRead, <<"send_msg">>)
        ELSE Did("exchange", tag, s.out, r.rest, r.outcome,
                 IF r.outcome = "ok" THEN "XerxesMessage" ELSE "none", r,
                 <<"send_msg", "read_msg">>)

\* a mutant of write_reg_net: any decoded reply counts as an acknowledgement
write_reg_net_any_reply(address, self_address, isOpened, reg_addr, value, stream, elapsed, old_t) ==
    LET payload == PackH(MsgId_WRITE) \o ToLE(reg_addr, 2) \o value
        tag == Tag("write_reg_net", self_address, address, value, reg_addr, -1)
        s == root_send_msg(self_address, isOpened, address, payload)
        w == wait_for_reply(stream, elapsed, old_t, WriteTimeout(payload))
        r == w.rply
    IN  IF reg_addr \notin 0..65535
        THEN WithTimeout(Did("write_reg_net", tag, <<>>, stream, "OverflowError", "none", NoRead, <<>>),
                         old_t)
        ELSE IF s.outcome # "ok"
        THEN WithTimeout(Did("write_reg_net", tag, <<>>, stream, s.outcome, "none", NoRead, <<"send_msg">>),
                         old_t)
        ELSE WithTimeout(Did("write_reg_net", tag, s.out, r.rest, r.outcome,
                             IF r.outcome # "ok" THEN "none" ELSE "True",
                             r, <<"send_msg", "read_msg">>),
                         w.timeout)

\* Leaf.write_reg_net(reg_addr, value): write_reg builds the payload from
\* the WRITE code, reg_addr.to_bytes(2, "little") and value, sends it and
\* waits for one reply; the result is reply.message_id == MsgId.ACK_OK
write_reg_net(address, self_address, isOpened, reg_addr, value, stream, elapsed, old_t) ==
    LET payload == PackH(MsgId_WRITE) \o ToLE(reg_addr, 2) \o value
        tag == Tag("write_reg_net", self_address, address, value, reg_addr, -1)
        s == root_send_msg(self_address, isOpened, address, payload)
        w == wait_for_reply(stream, elapsed, old_t, WriteTimeout(payload))
        r == w.rply
    IN  IF reg_addr \notin 0..65535
        THEN WithTimeout(Did("write_reg_net", tag, <<>>, stream, "OverflowError", "none", NoRead, <<>>),
                         old_t)
        ELSE IF s.outcome # "ok"
        THEN WithTimeout(Did("write_reg_net", tag, <<>>, stream, s.outcome, "none", NoRead, <<"send_msg">>),
                         old_t)
        ELSE WithTimeout(Did("write_reg_net", tag, s.out, r.rest, r.outcome,
                             IF r.outcome # "ok" THEN "none"
                             ELSE IF r.msg.message_id = MsgId_ACK_OK THEN "True" ELSE "False",
                             r, <<"send_msg", "read_msg">>),
                         w.timeout)

\* what may arrive after a request from the Root at a to the Leaf at d:
\* nothing, an acknowledgement, a reply of another kind, an acknowledgement
\* cut short or with a wrong checksum, two acknowledgements in a row
LeafReplies(a, d) ==
    LET ack == Frame(d, a, PackH(MsgId_ACK_OK))
        other == Frame(d, a, PackH(MsgId_PING_REPLY) \o <<3, 1, 4>>)
    IN  {<<>>, ack, other, SubSeq(ack, 1, Len(ack) - 1),
         [ack EXCEPT ![Len(ack)] = FlipBit(@, 0)], ack \o other}

\* payloads Leaf.exchange is called with: a register read request, a
\* payload send_msg refuses
ExchangePayloads ==
    {PackH(MsgId_READ_REQ) \o <<0, 0, 4>>, Zeros(MaxLenByte - 4)}

\* (reg_addr, value) pairs Leaf.write_reg_net is called with
WriteRegInputs ==
    {<<OFFSET_ADDRESS, <<5>>>>, <<GAIN_PV0_OFFSET, <<0, 0, 192, 63>>>>, <<65536, <<5>>>>}

\* leaf.exchange(payload) of the Leaf at addr; resp arrives while it waits,
\* on a bus that holds at most what one earlier reply left behind
Exchange(addr, payload, resp) ==
    /\ resp # <<>> => (opened /\ rx = <<>>)
    /\ \E elapsed \in 0..MaxElapsed :
        LET r == exchange(addr, root_addr, opened, payload, rx \o resp, elapsed)
        IN  /\ written' = r.out
            /\ rx' = r.rest
            /\ last' = r.res
    /\ UNCHANGED <<opened, notNet>>

\* leaf.write_reg_net(reg_addr, value) of the Leaf at addr
WriteRegNet(addr, reg_addr, value, resp) ==
    /\ resp # <<>> => (opened /\ rx = <<>>)
    /\ \E elapsed \in 0..MaxElapsed :
        LET r == write_reg_net(addr, root_addr, opened, reg_addr, value, rx \o resp, elapsed, s_timeout)
        IN  /\ written' = r.out
            /\ rx' = r.rest
            /\ last' = r.res
            /\ s_timeout' = r.timeout
    /\ UNCHANGED <<opened, notChannel>>

\* a mutant of Sync: after the frame is written a reply is awaited
Sync_awaits_reply ==
    LET s == sync(root_addr, opened)
        tag == Tag("sync", root_addr, BROADCAST_ADDR, PackH(MsgId_SYNC), 0, -1)
        r == read_msg(rx, 0)
    IN  /\ written' = s.out
        /\ rx' = IF s.outcome = "ok" THEN r.rest ELSE rx
        /\ last' = [Outcome("sync", s.outcome, tag) EXCEPT !.calls = <<"send_msg">>]
        /\ UNCHANGED <<opened, notNet>>

\* root.sync()
Sync ==
    LET s == sync(root_addr, opened)
        tag == Tag("sync", root_addr, BROADCAST_ADDR, PackH(MsgId_SYNC), 0, -1)
    IN  /\ written' = s.out
        /\ last' = [Outcome("sync", s.outcome, tag) EXCEPT !.calls = <<"send_msg">>]
        /\ UNCHANGED <<opened, rx, notNet>>

\* leaf.reset_soft() of the Leaf at addr
ResetSoft(addr) ==
    LET s == reset_soft(addr, root_addr, opened)
        tag == Tag("reset_soft", root_addr, addr, PackH(MsgId_RESET_SOFT), 0, -1)
    IN  /\ written' = s.out
        /\ last' = [Outcome("reset_soft", s.outcome, tag) EXCEPT !.calls = <<"send_msg">>]
        /\ UNCHANGED <<opened, rx, notNet>>

\* the Leaf whose reply the preceding exchange did not wait long enough for
\* answers now: its reply is on the bus when the next call is made
LateReply ==
    /\ opened /\ rx = <<>>
    /\ last.op = "exchange" /\ last.outcome = "TimeoutError"
    /\ rx' = Frame(last.tag.destination, root_addr, PackH(MsgId_ACK_OK) \o <<9>>)
    /\ UNCHANGED <<opened, written, last, notNet>>

\* a Root and its Leaves on a network, with the reads of the frames that
\* an operation left pending
NextLeaf ==
    \/ Init_
    \/ \E addr \in LeafAddrs, payload \in ExchangePayloads :
          \E resp \in LeafReplies(root_addr, addr) : Exchange(addr, payload, resp)
    \/ \E addr \in LeafAddrs, in \in WriteRegInputs :
          \E resp \in LeafReplies(root_addr, addr) : WriteRegNet(addr, in[1], in[2], resp)
    \/ Sync
    \/ \E addr \in LeafAddrs : ResetSoft(addr)
    \/ ReadPending
    \/ LateReply

SpecLeaf ==
    InitRoot /\ [][NextLeaf]_vars

-----------------------------------------------------------------------------
(* network.py: class Addr(int) *)

\* arguments Addr is constructed with
IntArg(n) ==
    [kind |-> "int", n |-> n, b |-> <<>>]

BytesArg(b) ==
    [kind |-> "bytes", n |-> 0, b |-> b]

FloatArg(n) ==
    [kind |-> "float", n |-> n, b |-> <<>>]

\* int(b.hex(), 16): the bytes as a big-endian number
RECURSIVE FromBE(_)
FromBE(b) ==
    IF b = <<>> THEN 0 ELSE 256 * FromBE(SubSeq(b, 1, Len(b) - 1)) + b[Len(b)]

\* a mutant of Addr_new: the upper limit is tested with <=
Addr_new_accepts_256(arg) ==
    LET n == IF arg.kind = "bytes" THEN FromBE(arg.b) ELSE arg.n
    IN  IF arg.kind = "bytes" /\ arg.b = <<>> THEN [outcome |-> "ValueError", value |-> -1]
        ELSE IF arg.kind \notin {"bytes", "int"} THEN [outcome |-> "AssertionError", value |-> -1]
        ELSE IF ~(n >= 0) THEN [outcome |-> "AssertionError", value |-> -1]
        ELSE IF ~(n =< 256) THEN [outcome |-> "AssertionError", value |-> -1]
        ELSE [outcome |-> "ok", value |-> n]

\* Addr.__new__(cls, addr): bytes are converted with int(addr.hex(), 16),
\* which raises ValueError on b""; then three assertions
Addr_new(arg) ==
    LET n == IF arg.kind = "bytes" THEN FromBE(arg.b) ELSE arg.n
    IN  IF arg.kind = "bytes" /\ arg.b = <<>> THEN [outcome |-> "ValueError", value |-> -1]
        ELSE IF arg.kind \notin {"bytes", "int"} THEN [outcome |-> "AssertionError", value |-> -1]
        ELSE IF ~(n >= 0) THEN [outcome |-> "AssertionError", value |-> -1]
        ELSE IF ~(n < 256) THEN [outcome |-> "AssertionError", value |-> -1]
        ELSE [outcome |-> "ok", value |-> n]

\* Addr.to_bytes(): int(self).to_bytes(1, "little")
Addr_to_bytes(a) ==
    IF a \in 0..255
    THEN [outcome |-> "ok", bytes |-> <<a>>]
    ELSE [outcome |-> "OverflowError", bytes |-> <<>>]

\* Addr.__eq__: int(self) == int(other)
Addr_eq(a, o) ==
    a = o

\* the arguments the constructions are drawn from
AddrArgs ==
    {IntArg(n) : n \in (-2)..257}
        \cup {BytesArg(b) : b \in {<<>>, <<0>>, <<1>>, <<255>>, <<0, 5>>, <<1, 0>>}}
        \cup {FloatArg(1)}

\* a = Addr(arg), and for a constructed a: a.to_bytes(), Addr(a.to_bytes())
\* and the comparison of that with a
NewAddr(arg) ==
    /\ LET a == Addr_new(arg)
           tb == Addr_to_bytes(a.value)
           again == Addr_new(BytesArg(tb.bytes))
       IN  alast' = IF a.outcome # "ok"
                   THEN [arg |-> arg, outcome |-> a.outcome, value |-> -1,
                         bytes |-> <<>>, again |-> -1, equal |-> FALSE]
                   ELSE IF tb.outcome # "ok"
                   THEN [arg |-> arg, outcome |-> a.outcome, value |-> a.value,
                         bytes |-> <<>>, again |-> -1, equal |-> FALSE]
                   ELSE [arg |-> arg, outcome |-> a.outcome, value |-> a.value,
                         bytes |-> tb.bytes, again |-> again.value,
                         equal |-> again.outcome = "ok" /\ Addr_eq(again.value, a.value)]
    /\ UNCHANGED <<netVars, sumVars, root_addr, mem, mlast, instances, s_timeout, olast>>

InitAddr ==
    /\ NetInit
    /\ buf = <<>> /\ chk = -1

NextAddr ==
    \E arg \in AddrArgs : NewAddr(arg)

SpecAddr ==
    InitAddr /\ [][NextAddr]_vars

-----------------------------------------------------------------------------
(* Objects: Leaf of hierarchy/leaves/leaf.py, ElementType of memory.py,
   FutureXerxesNetwork and the XerxesNetwork instances of network.py *)

\* an Addr as the argument of a constructor
AddrArg(n) ==
    [kind |-> "Addr", n |-> n, b |-> <<>>]

\* a XerxesRoot, and an object that is none
RootObj(name) ==
    [kind |-> "XerxesRoot", _address |-> -1, root |-> name]

NoneObj ==
    [kind |-> "NoneType", _address |-> -1, root |-> ""]

\* an int and an Addr as the right-hand side of a comparison
IntObj(n) ==
    [kind |-> "int", _address |-> n, root |-> ""]

AddrObj(n) ==
    [kind |-> "Addr", _address |-> n, root |-> ""]

\* Leaf.__init__(addr, root): an int is converted with Addr(addr); addr has
\* to be an Addr then and root a XerxesRoot
Leaf_new(addr, root) ==
    LET isInt == addr.kind \in {"int", "Addr"}
        a == Addr_new(IntArg(addr.n))
        Raise_(exc) == [outcome |-> exc, value |-> NoneObj]
    IN  IF isInt /\ a.outcome # "ok" THEN Raise_(a.outcome)
        ELSE IF ~isInt THEN Raise_("AssertionError")
        ELSE IF root.kind # "XerxesRoot" THEN Raise_("AssertionError")
        ELSE [outcome |-> "ok",
              value |-> [kind |-> "Leaf", _address |-> a.value, root |-> root.root]]

\* Addr.__hash__: int(self)
Addr_hash(a) ==
    a

\* Leaf.__eq__ that also asks for the same Root
Leaf_eq_same_root(self, o) ==
    o.kind = "Leaf" /\ Addr_eq(self._address, o._address) /\ self.root = o.root

\* Leaf.__eq__(o): isinstance(o, Leaf) and self._address == o.address
Leaf_eq(self, o) ==
    o.kind = "Leaf" /\ Addr_eq(self._address, o._address)

\* Leaf.__hash__(): hash(self.address)
Leaf_hash(self) ==
    Addr_hash(self._address)

\* the Roots, and the Leaves constructed on them
Roots ==
    {RootObj("root0"), RootObj("root30")}

Leaves ==
    {Leaf_new(a, r).value : a \in {IntArg(0), IntArg(5), AddrArg(5), IntArg(255)}, r \in Roots}

\* what a Leaf is compared with: the Leaves, an int, an Addr, None, a Root
Others ==
    Leaves \cup {IntObj(5), AddrObj(5), NoneObj, RootObj("root0")}

\* self == o for a Leaf self, and the hash of each side that is a Leaf
Compare(self, o) ==
    /\ olast' = [op |-> "eq", self |-> self, other |-> o,
                 equal |-> Leaf_eq(self, o),
                 hash |-> Leaf_hash(self),
                 other_hash |-> IF o.kind = "Leaf" THEN Leaf_hash(o) ELSE -1]
    /\ UNCHANGED <<netVars, sumVars, root_addr, mem, mlast, alast, instances, s_timeout>>

\* ElementType(_container, _format, _length): the __init__ the dataclass
\* decorator generates stores the three fields; there is no __post_init__
ElementType_new(_container, _format, _length) ==
    [outcome |-> "ok",
     value |-> [_container |-> _container, _format |-> _format, _length |-> _length]]

\* the formats of the element types of the module
CatalogFormats ==
    {ElementTypes[t]._format : t \in DOMAIN ElementTypes}

\* the formats, lengths and containers an ElementType is constructed with
TriedFormats ==
    CatalogFormats \cup {"c", "x"}

TriedLengths ==
    {1, 2, 4, 8}

\* ElementType(_format=f, _length=l, _container=c)
NewElementType(c, f, l) ==
    /\ LET e == ElementType_new(c, f, l)
       IN  olast' = [op |-> "ElementType", format |-> f, outcome |-> e.outcome, value |-> e.value]
    /\ UNCHANGED <<netVars, sumVars, root_addr, mem, mlast, alast, instances, s_timeout>>

\* a call with npos positional arguments and the keyword arguments kw binds
\* to the parameters params (after self) when each parameter gets one value
Binds(params, npos, kw) ==
    /\ npos =< Len(params)
    /\ kw \subseteq {params[i] : i \in (npos + 1)..Len(params)}
    /\ npos + Cardinality(kw) = Len(params)

\* FutureXerxesNetwork.send_msg(self, __dst, __pld): inside the class the
\* two parameter names are mangled; the body raises NotImplementedError
Future_send_msg(npos, kw) ==
    IF ~Binds(<<"_FutureXerxesNetwork__dst", "_FutureXerxesNetwork__pld">>, npos, kw)
    THEN [outcome |-> "TypeError"]
    ELSE [outcome |-> "NotImplementedError"]

\* FutureXerxesNetwork.read_msg(self)
Future_read_msg(npos, kw) ==
    IF ~Binds(<<>>, npos, kw)
    THEN [outcome |-> "TypeError"]
    ELSE [outcome |-> "NotImplementedError"]

\* the argument lists of the calls: those of the tests, those of
\* XerxesNetwork.send_msg(source, destination, payload) as XerxesRoot calls
\* it, and lists one argument short or long
CallShapes ==
    {[npos |-> n, kw |-> {}] : n \in 0..3}
        \cup {[npos |-> 0, kw |-> {"source", "destination", "payload"}],
              [npos |-> 1, kw |-> {"_FutureXerxesNetwork__pld"}]}

\* fn.send_msg(...) and fn.read_msg(...) of a FutureXerxesNetwork fn, which
\* holds no port
FutureCall(method, shape) ==
    /\ LET r == IF method = "send_msg"
                THEN Future_send_msg(shape.npos, shape.kw)
                ELSE Future_read_msg(shape.npos, shape.kw)
       IN  olast' = [op |-> "future", method |-> method, shape |-> shape, outcome |-> r.outcome]
    /\ UNCHANGED <<netVars, sumVars, root_addr, mem, mlast, alast, instances, s_timeout>>

\* depth of nested calls at which the interpreter raises RecursionError
RecursionLimit == 6

\* the setter of Leaf.address, entered at call depth depth: after the
\* assertion its first statement assigns to self.address, which is a call of
\* this setter; _address is assigned only when that call returns. The
\* handlers re-raise ValueError, AttributeError and TimeoutError under their
\* own type, and any other exception passes through
RECURSIVE address_setter(_, _, _)
address_setter(self, _addr, depth) ==
    LET Raise_(exc) == [outcome |-> exc, self |-> self]
        inner == address_setter(self, IntArg(_addr.n), depth + 1)
        a == Addr_new(IntArg(_addr.n))
    IN  IF depth > RecursionLimit THEN Raise_("RecursionError")
        ELSE IF _addr.kind \notin {"int", "Addr"} THEN Raise_("AssertionError")
        ELSE IF inner.outcome # "ok" THEN Raise_(inner.outcome)
        ELSE IF a.outcome # "ok" THEN [outcome |-> a.outcome, self |-> inner.self]
        ELSE [outcome |-> "ok", self |-> [inner.self EXCEPT !._address = a.value]]

\* the values assigned to the address of a Leaf
AssignedAddrs ==
    {IntArg(0), IntArg(7), IntArg(255), IntArg(256), AddrArg(7), FloatArg(1)}

\* leaf.address = _addr
SetAddress(self, _addr) ==
    /\ LET r == address_setter(self, _addr, 1)
       IN  olast' = [op |-> "set_address", self |-> self, arg |-> _addr,
                     outcome |-> r.outcome, after |-> r.self]
    /\ UNCHANGED <<netVars, sumVars, root_addr, mem, mlast, alast, instances, s_timeout>>

\* the ports a XerxesNetwork is constructed on: two serial.Serial objects
\* and the name of a port, which is no serial.Serial
SerialPorts ==
    {"serial1", "serial2"}

Ports ==
    SerialPorts \cup {"/dev/ttyUSB0"}

\* XerxesNetwork.__new__ that makes a new object on every call
XerxesNetwork_new_always_fresh(insts, port) ==
    [p \in DOMAIN insts \cup {port} |->
        IF p = port
        THEN [id |-> Cardinality(DOMAIN insts) + 2, _s |-> "unset", _opened |-> FALSE, timeout |-> NoTimeout]
        ELSE insts[p]]

\* XerxesNetwork.__new__(cls, port): the instance registered for port, which
\* is made by object.__new__ on the first call for port; _opened is then the
\* class attribute, False. Objects are told apart by id
XerxesNetwork_new(insts, port) ==
    IF port \notin DOMAIN insts
    THEN [p \in DOMAIN insts \cup {port} |->
            IF p = port
            THEN [id |-> Cardinality(DOMAIN insts) + 1, _s |-> "unset", _opened |-> FALSE, timeout |-> NoTimeout]
            ELSE insts[p]]
    ELSE insts

\* XerxesNetwork.__init__(self, port) on the instance __new__ returned
XerxesNetwork_init(insts, port) ==
    IF port \notin SerialPorts
    THEN [outcome |-> "AssertionError", insts |-> insts]
    ELSE [outcome |-> "ok", insts |-> [insts EXCEPT ![port]._s = port]]

\* network = XerxesNetwork(port): __new__, then __init__ on what it returned
NewNetwork(port) ==
    /\ LET made == XerxesNetwork_new(instances, port)
           r == XerxesNetwork_init(made, port)
       IN  /\ instances' = r.insts
           /\ olast' = [op |-> "XerxesNetwork", port |-> port, outcome |-> r.outcome,
                        before |-> instances, id |-> made[port].id]
    /\ UNCHANGED <<netVars, sumVars, root_addr, mem, mlast, alast, s_timeout>>

\* network.init() of the instance constructed on port
InitInstance(port) ==
    /\ port \in DOMAIN instances /\ instances[port]._s = port
    /\ instances' = [instances EXCEPT ![port]._opened = TRUE, ![port].timeout = DEFAULT_TIMEOUT]
    /\ olast' = [op |-> "init", port |-> port, outcome |-> "ok"]
    /\ UNCHANGED <<netVars, sumVars, root_addr, mem, mlast, alast, s_timeout>>

\* constructions of XerxesNetwork and init on what they returned
NextInstances ==
    \/ \E port \in Ports : NewNetwork(port)
    \/ \E port \in Ports : InitInstance(port)

SpecInstances ==
    InitAddr /\ [][NextInstances]_vars

NextObjects ==
    \/ \E self \in Leaves, o \in Others : Compare(self, o)
    \/ \E self \in Leaves, _addr \in AssignedAddrs : SetAddress(self, _addr)
    \/ \E method \in {"send_msg", "read_msg"}, shape \in CallShapes : FutureCall(method, shape)
    \/ \E c \in {"int", "float"}, f \in TriedFormats, l \in TriedLengths : NewElementType(c, f, l)

SpecObjects ==
    InitAddr /\ [][NextObjects]_vars

-----------------------------------------------------------------------------
(* network.py: read_msg on a stream of frames send_msg wrote *)

\* most frames in one stream
MaxFrames == 2

\* the messages of a stream: payloads of 2 to 5 bytes, the byte SOH among them
StreamMsgs ==
    {[source |-> ad[1], destination |-> ad[2], payload |-> p] :
        ad \in AddrPairs, p \in {<<0, 0>>, <<SOH, SOH>>, <<2, 0, SOH>>, <<1, 0, 3, 1, 4>>}}

\* the bytes send_msg writes for the messages of msgs, one after the other
RECURSIVE Encoded(_)
Encoded(msgs) ==
    IF msgs = <<>> THEN <<>>
    ELSE send_msg(Head(msgs).source, Head(msgs).destination, Head(msgs).payload).out[1]
             \o Encoded(Tail(msgs))

\* an opened port that holds the frames of up to MaxFrames messages
InitStream ==
    /\ opened = TRUE
    /\ s_timeout = DEFAULT_TIMEOUT
    /\ written = <<>>
    /\ last = Outcome("init", "ok", NoTag)
    /\ root_addr = 0
    /\ buf = <<>> /\ chk = -1
    /\ mem = <<>> /\ mlast = <<>> /\ alast = NoAddr /\ instances = <<>>
    /\ \E msgs \in SeqsUpTo(StreamMsgs, MaxFrames) :
          /\ rx = Encoded(msgs)
          /\ olast = [op |-> "stream", sent |-> msgs, got |-> <<>>]

\* the next read_msg on the stream; one more than there are frames is made
DecodeNext ==
    /\ Len(olast.got) =< Len(olast.sent)
    /\ \E elapsed \in 0..MaxElapsed :
          LET r == read_msg(rx, elapsed)
          IN  /\ last' = Result("read_msg", r.outcome,
                                IF r.outcome = "ok" THEN "XerxesMessage" ELSE "none",
                                r.msg, NoPing, r.reads, r.sohAt,
                                Tag("pending", -1, -1, rx, Len(rx), -1))
              /\ rx' = r.rest
              /\ olast' = [olast EXCEPT !.got =
                              Append(@, [outcome |-> r.outcome, msg |-> [r.msg EXCEPT !.latency = -1]])]
    /\ written' = <<>>
    /\ UNCHANGED <<opened, buf, chk, root_addr, mem, mlast, alast, instances, s_timeout>>

NextStream ==
    DecodeNext

SpecStream ==
    InitStream /\ [][NextStream]_vars

-----------------------------------------------------------------------------
(* memory.py: XerxesMemoryType.__init__, constructing maps of one class *)

\* the keys of dir(XerxesMemoryMap) that hold a MemoryElement, in the sorted
\* order of dir(), each written without its leading underscore
ElementKeys ==
    <<"config", "desired_cycle_time", "device_address", "dv0", "dv1", "dv2", "dv3",
      "error", "gain_pv0", "gain_pv1", "gain_pv2", "gain_pv3",
      "max_pv0", "max_pv1", "max_pv2", "max_pv3",
      "mean_pv0", "mean_pv1", "mean_pv2", "mean_pv3", "memory_lock",
      "min_pv0", "min_pv1", "min_pv2", "min_pv3", "net_cycle_time_us",
      "offset_pv0", "offset_pv1", "offset_pv2", "offset_pv3",
      "pv0", "pv1", "pv2", "pv3", "status",
      "std_dev_pv0", "std_dev_pv1", "std_dev_pv2", "std_dev_pv3", "uid">>

\* dir(self.__class__) without the dunder keys: the underscored element keys
\* sort before the names of the properties the class carries already
ClassDir(props) ==
    [i \in 1..Len(ElementKeys) |-> [key |-> ElementKeys[i], private |-> TRUE]]
    \o SelectSeq([i \in 1..Len(ElementKeys) |-> [key |-> ElementKeys[i], private |-> FALSE]],
                 LAMBDA k : k.key \in props)

\* the loop of __init__ over the keys: attr = getattr(self, key); an element
\* key installs the property key.lstrip("_") on the class, a property key runs
\* its getter on the instance under construction
RECURSIVE XerxesMemoryType_init(_, _, _)
XerxesMemoryType_init(keys, acc, m) ==
    IF keys = <<>> \/ acc.outcome # "ok" THEN acc
    ELSE LET k == Head(keys)
         IN  IF k.private
             THEN XerxesMemoryType_init(Tail(keys),
                      [acc EXCEPT !.props = @ \cup {k.key}], m)
             ELSE LET attr == fget(k.key, m)
                  IN  XerxesMemoryType_init(Tail(keys),
                          [acc EXCEPT !.outcome = attr.outcome,
                                      !.rcalls = @ \o attr.rcalls], m)

\* the class as defined: no property installed, no map constructed
ClassDefined ==
    [op |-> "class", props |-> {}, outcome |-> "ok", rcalls |-> <<>>, wcalls |-> <<>>,
     maps |-> 0]

\* the number of maps constructed is counted up to this
MaxMaps == 2

InitConstruct ==
    /\ opened = FALSE
    /\ s_timeout = NoTimeout
    /\ rx = <<>> /\ written = <<>>
    /\ last = Outcome("none", "ok", NoTag)
    /\ root_addr = 0
    /\ buf = <<>> /\ chk = -1
    /\ \E uid \in UidContents :
          mem = write_reg_f([o \in MemBytes |-> 0], UID_OFFSET, ToLE(uid, 4) \o Zeros(4), TRUE).mem
    /\ mlast = NoAccess
    /\ alast = NoAddr
    /\ instances = <<>>
    /\ olast = ClassDefined

\* XerxesMemoryMap(reader, writer), the primitives reading and writing mem
Construct ==
    /\ olast.maps < MaxMaps
    /\ LET r == XerxesMemoryType_init(ClassDir(olast.props),
                    [props |-> olast.props, outcome |-> "ok", rcalls |-> <<>>], mem)
       IN  olast' = [op |-> "construct", props |-> r.props, outcome |-> r.outcome,
                     rcalls |-> r.rcalls, wcalls |-> <<>>, maps |-> olast.maps + 1]
    /\ UNCHANGED <<mem, mlast, netVars, sumVars, root_addr, alast, instances, s_timeout>>

\* value = map.<name> on a constructed map
MapGet ==
    /\ olast.op = "construct"
    /\ \E name \in ExercisedRegs : Get(name)

\* map.<name> = value on a constructed map
MapSet ==
    /\ olast.op = "construct"
    /\ \E name \in ExercisedRegs, value \in HostValues, ack \in BOOLEAN : Set(name, value, ack)

NextConstruct ==
    \/ Construct
    \/ MapGet
    \/ MapSet

SpecConstruct ==
    InitConstruct /\ [][NextConstruct]_vars

-----------------------------------------------------------------------------
(* Claims *)

\* read_msg has just run on exactly the frame send_msg wrote
DecodedEcho ==
    last.op = "read_msg" /\ last.tag.kind = "frame"

\* the message read_msg returned is the one that was sent: source,
\* destination, and kind code followed by payload
ReproducesSent ==
    /\ last.outcome = "ok"
    /\ last.ret = "XerxesMessage"
    /\ last.msg.source = last.tag.source
    /\ last.msg.destination = last.tag.destination
    /\ PackH(last.msg.message_id) \o last.msg.payload = last.tag.payload
    /\ last.msg.crc = 0

\* C1 as stated: for every source, destination and payload of at most 250
\* bytes, read_msg on exactly the bytes send_msg wrote returns a message with
\* the source and destination sent, whose kind code and payload together are
\* the sent payload, and whose checksum residue is 0.
C1_RoundTripEveryPayload ==
    DecodedEcho => ReproducesSent

\* C1 amended: the same for every payload of 2 to 250 bytes, that is one
\* that begins with the two bytes of a kind code.
C1_RoundTrip ==
    (DecodedEcho /\ Len(last.tag.payload) >= 2) => ReproducesSent

\* a 250-byte payload, the longest send_msg accepts, came back whole
C1_Witness ==
    /\ DecodedEcho
    /\ Len(last.tag.payload) = MaxLenByte - 5
    /\ ReproducesSent
    /\ Len(last.msg.payload) = MaxLenByte - 7

\* C2: for every byte string b, (sum(b) + checksum(b)) mod 256 = 0, and
\* checksum(b) is one byte, equal to (256 - (sum(b) mod 256)) mod 256.
C2_ChecksumResidue ==
    chk # -1 =>
        /\ chk \in Byte
        /\ (Sum(buf) + chk) % 256 = 0
        /\ chk = (256 - (Sum(buf) % 256)) % 256

\* checksum was applied to a string whose bytes sum to exactly 256
C2_Witness ==
    chk = 0 /\ Sum(buf) = 256

\* read_msg has just run on the frame send_msg wrote with one bit flipped
DecodedFlipped ==
    last.op = "read_msg" /\ last.tag.kind = "flipped"

\* C3 as stated: for every frame send_msg produces and every bit position
\* of it, read_msg on the frame with that bit flipped fails with
\* ChecksumError and returns no message.
C3_EveryFlipIsChecksumError ==
    DecodedFlipped => (last.outcome = "ChecksumError" /\ last.ret = "none")

\* C3 amended: for every frame send_msg produces from a payload of at least
\* 2 bytes, and every bit position in its SRC, DST, payload or CHK bytes (any
\* byte after SOH and LEN), read_msg on the frame with that bit flipped fails
\* with ChecksumError and returns no message.
C3_FlipAfterLenIsChecksumError ==
    (DecodedFlipped /\ Len(last.tag.payload) >= 2 /\ last.tag.pos >= 3)
        => (last.outcome = "ChecksumError" /\ last.ret = "none")

\* the top bit of the checksum byte of a frame with data bytes was flipped
C3_Witness ==
    /\ DecodedFlipped
    /\ Len(last.tag.payload) = 3
    /\ last.tag.pos = Len(last.tag.payload) + 5
    /\ last.tag.bit = 7
    /\ last.outcome = "ChecksumError"

\* every read of the stream s returns nothing
Silent(s) ==
    \A i \in 1..Len(s) : s[i] = GAP

\* s is SOH, LEN, SRC, DST and two kind bytes, and then nothing
IsHeaderOnly(s) ==
    /\ Len(s) = 6
    /\ s[1] = SOH
    /\ \A i \in 2..6 : s[i] \in Byte

\* read_msg has just run on the stream last.tag.payload, nothing else arrived
DecodedPending ==
    last.op = "read_msg" /\ last.tag.kind = "pending" /\ opened

\* C4: read_msg on a stream that yields no byte from the first read on fails
\* with TimeoutError; on a stream that yields SOH, LEN, SRC, DST and the two
\* kind bytes and then ends it fails with MessageIncomplete, for every LEN.
C4_TimeoutAndIncomplete ==
    /\ (DecodedPending /\ Silent(last.tag.payload))
            => (last.outcome = "TimeoutError" /\ last.ret = "none")
    /\ (DecodedPending /\ IsHeaderOnly(last.tag.payload))
            => (last.outcome = "MessageIncomplete" /\ last.ret = "none")

\* a header that announces fewer than 7 bytes ended after the kind bytes
C4_Witness ==
    /\ DecodedPending
    /\ IsHeaderOnly(last.tag.payload)
    /\ last.tag.payload[2] < 7
    /\ last.outcome = "MessageIncomplete"

\* read_msg found SOH, and a later read of it returned no byte
ZeroReadAfterSOH ==
    /\ last.op = "read_msg"
    /\ last.sohAt > 0
    /\ \E i \in (last.sohAt + 1)..Len(last.reads) : last.reads[i] = 0

\* C5: once read_msg has read SOH, a read that returns no byte at any later
\* step (length, source, destination, kind, data, checksum) makes it fail
\* with MessageIncomplete and with no other error.
C5_ZeroReadIsIncomplete ==
    ZeroReadAfterSOH => last.outcome = "MessageIncomplete"

\* ping has just run on an opened port
Pinged ==
    last.op = "ping" /\ last.outcome # "AssertionError"

\* ping decoded a reply
PingDecoded ==
    Pinged /\ last.msg # NoMsg

\* C6: when ping receives a validly decoded reply whose kind is not
\* ping-reply, it fails with NetworkError; it never returns normally then.
C6_OtherKindIsNetworkError ==
    (PingDecoded /\ last.msg.message_id # MsgId_PING_REPLY)
        => (last.outcome = "NetworkError" /\ last.ret = "none")

\* C7: ping(address) writes exactly one frame (source the Root's address,
\* destination address, payload the ping kind code) and then performs one
\* decode; when the reply is a ping-reply with a 3-byte payload the result
\* carries exactly device kind, major and minor and a latency >= 0.
C7_PingOneFrameAndReply ==
    /\ Pinged =>
        /\ written = <<Frame(root_addr, last.tag.destination, PackH(MsgId_PING))>>
        /\ last.calls = <<"send_msg", "read_msg">>
    /\ (PingDecoded /\ last.msg.message_id = MsgId_PING_REPLY
            /\ Len(last.msg.payload) = 3) =>
        /\ last.outcome = "ok"
        /\ last.ret = "XerxesPingReply"
        /\ last.ping.dev_id = last.msg.payload[1]
        /\ last.ping.v_maj = last.msg.payload[2]
        /\ last.ping.v_min = last.msg.payload[3]
        /\ last.ping.latency >= 0

\* the Root at 30 pinged 255 and got device kind 3, version 2.4 back
C7_Witness ==
    /\ Pinged
    /\ root_addr = 30
    /\ last.tag.destination = 255
    /\ last.ret = "XerxesPingReply"
    /\ last.ping.dev_id = 3 /\ last.ping.v_maj = 2 /\ last.ping.v_min = 4
    /\ last.ping.latency = MaxElapsed

\* the register name is a writable one of the map
Writable(name) ==
    name \in DOMAIN XerxesMemoryMap /\ XerxesMemoryMap[name].write_access

\* the register name is one of the map that is not writable
ReadOnly(name) ==
    name \in DOMAIN XerxesMemoryMap /\ ~XerxesMemoryMap[name].write_access

\* value is a value of the element type of register name: a float that a
\* float register holds exactly, an integer in the range of an integer register
Representable(name, value) ==
    LET type == TypeOf(name)
        packed == struct_pack(type._format, value)
    IN  /\ value.kind = (IF type._format \in {"f", "d"} THEN "float" ELSE "int")
        /\ packed.outcome = "ok"
        /\ struct_unpack(type._format, packed.bytes).value = value

\* the last access was a set of a representable value on a writable register
SetOnWritable ==
    /\ mlast.op = "set"
    /\ Writable(mlast.name)
    /\ Representable(mlast.name, mlast.value)

\* C8: with a writer that stores the bytes and acknowledges, set(name, v) of a
\* representable value v on a writable register completes without error and a
\* following get(name) returns v.
C8_SetThenGetReturnsValue ==
    (SetOnWritable /\ mlast.ack) =>
        /\ mlast.outcome = "ok"
        /\ fget(mlast.name, mem).outcome = "ok"
        /\ fget(mlast.name, mem).value = mlast.value

\* C9: a set on a writable register fails with the write failure (RuntimeError)
\* exactly when the writer reports the write as not acknowledged, and returns
\* without error when the writer acknowledges.
C9_WriteFailureIffNotAcknowledged ==
    SetOnWritable =>
        /\ (mlast.outcome = "RuntimeError") <=> ~mlast.ack
        /\ mlast.ack => mlast.outcome = "ok"

\* C10: a set on a register that is not writable (status, error, uid) fails
\* with the write rejection (AttributeError) and never invokes the writer,
\* whatever the value, the writer and the contents of the buffer: for the set
\* that has just run, and for a set of any value on any such register now.
C10_ReadOnlySetRejected ==
    /\ (mlast.op = "set" /\ ReadOnly(mlast.name)) =>
          /\ mlast.outcome = "AttributeError"
          /\ mlast.wcalls = <<>>
    /\ \A name \in DOMAIN XerxesMemoryMap, value \in HostValues, ack \in BOOLEAN :
          ReadOnly(name) =>
              /\ setter(name, value, mem, ack).outcome = "AttributeError"
              /\ setter(name, value, mem, ack).wcalls = <<>>
              /\ setter(name, value, mem, ack).mem = mem

\* a set of an integer on the uid register, with an acknowledging writer, was
\* rejected after an earlier set had stored a value in the buffer
C10_Witness ==
    /\ mlast.op = "set" /\ mlast.name = "uid"
    /\ mlast.value = IntV(5) /\ mlast.ack
    /\ mlast.outcome = "AttributeError" /\ mlast.wcalls = <<>>
    /\ fget("gain_pv0", mem).value = FloatV(0, 0, 4194304, 0)
    /\ fget("uid", mem).value = IntV(258)

\* the last access was a get of a register of the map
GotRegister ==
    mlast.op = "get" /\ mlast.name \in DOMAIN XerxesMemoryMap

\* C11: every get(name) invokes the reader exactly once, with the offset of
\* the register and the width of its element type, and returns the decoding
\* of the bytes the reader supplied on that invocation; nothing is cached, so
\* a get after the register changed returns the new contents.
C11_GetReadsOnceUncached ==
    GotRegister =>
        LET _attr == XerxesMemoryMap[mlast.name]
            type == TypeOf(mlast.name)
            supplied == read_reg_f(mem, _attr.mem_addr, type._length)
        IN  /\ mlast.rcalls = <<<<_attr.mem_addr, type._length>>>>
            /\ mlast.wcalls = <<>>
            /\ mlast.outcome = "ok"
            /\ mlast.ret = struct_unpack(type._format, supplied).value

\* a get of gain_pv0 returned 1.5 from one reader call: the buffer was zero
\* at construction, so the value is the one a set stored in between
C11_Witness ==
    /\ GotRegister /\ mlast.name = "gain_pv0"
    /\ mlast.rcalls = <<<<GAIN_PV0_OFFSET, 4>>>>
    /\ mlast.ret = FloatV(0, 0, 4194304, 0)

\* the byte range [offset, offset + width) of register name
ByteRange(name) ==
    XerxesMemoryMap[name].mem_addr .. (XerxesMemoryMap[name].mem_addr + TypeOf(name)._length - 1)

\* C12: in the combined map the byte ranges of any two distinct registers are
\* disjoint, and a set writes exactly the byte range of its own register.
C12_RangesDisjoint ==
    /\ \A a, b \in DOMAIN XerxesMemoryMap :
          a # b => ByteRange(a) \cap ByteRange(b) = {}
    /\ (mlast.op = "set" /\ mlast.wcalls # <<>>) =>
          /\ Len(mlast.wcalls) = 1
          /\ mlast.wcalls[1][1] .. (mlast.wcalls[1][1] + Len(mlast.wcalls[1][2]) - 1)
                = ByteRange(mlast.name)

\* three registers and the uid each hold a value of their own: 1.5 in
\* gain_pv0, -2.0 in pv0, 258 in desired_cycle_time written last, 258 in uid
C12_Witness ==
    /\ mlast.op = "set" /\ mlast.name = "desired_cycle_time" /\ mlast.wcalls # <<>>
    /\ fget("gain_pv0", mem).value = FloatV(0, 0, 4194304, 0)
    /\ fget("pv0", mem).value = FloatV(1, 1, 0, 0)
    /\ fget("desired_cycle_time", mem).value = IntV(258)
    /\ fget("uid", mem).value = IntV(258)
    /\ fget("gain_pv1", mem).value = FloatV(0, ZeroExp, 0, 0)

\* send_msg has just run on an opened port
SentOpened ==
    last.op = "send_msg" /\ opened

C14_FrameLayout ==
    (SentOpened /\ last.outcome = "ok") =>
        /\ Len(written) = 1
        /\ LET f == written[1]
               n == Len(last.tag.payload)
           IN  /\ Len(f) = n + 5
               /\ f[1] = 1
               /\ f[2] = n + 5
               /\ f[3] = last.tag.source
               /\ f[4] = last.tag.destination
               /\ SubSeq(f, 5, n + 4) = last.tag.payload
               /\ f[n + 5] = checksum(SubSeq(f, 1, n + 4))
               /\ Sum(f) % 256 = 0

\* the frame of the payload 1, 0, 1 from address 0 to address 1
C14_Witness ==
    /\ SentOpened
    /\ last.tag.source = 0 /\ last.tag.destination = 1
    /\ written = <<<<1, 8, 0, 1, 1, 0, 1, 244>>>>

\* read_msg has just returned a message
ReturnedMessage ==
    last.op = "read_msg" /\ last.outcome = "ok"

\* C15: every message read_msg returns has len(payload) = length - 7 and
\* checksum residue 0; no message is returned for a LEN byte smaller than 7.
C15_PayloadLengthMatchesLen ==
    ReturnedMessage =>
        /\ Len(last.msg.payload) = last.msg.length - 7
        /\ last.msg.crc = 0
        /\ last.msg.length >= 7

\* init has never been called and send_msg or read_msg has just run
CalledUnopened ==
    ~opened /\ last.op \in {"send_msg", "read_msg"}

\* C16: on a network on which init was never called, send_msg and read_msg
\* fail with the not-opened condition (AssertionError); the failed call
\* writes nothing, performs no read and leaves the pending input as it was.
C16_UnopenedFailsUntouched ==
    CalledUnopened =>
        /\ last.outcome = "AssertionError"
        /\ last.ret = "none"
        /\ written = <<>>
        /\ last.reads = <<>>
        /\ last.op = "read_msg" => rx = last.tag.payload

\* read_msg failed on an unopened port that holds a frame with zero residue
C16_Witness ==
    /\ CalledUnopened
    /\ last.op = "read_msg"
    /\ last.outcome = "AssertionError"
    /\ rx \in ShortLenFrames

\* Leaf.exchange has just run on an opened port with a payload send_msg takes
Exchanged ==
    last.op = "exchange" /\ opened /\ Len(last.tag.payload) + 5 =< 255

\* the conditions read_msg fails with on a reply that is missing or damaged
DecodeFailures ==
    {"TimeoutError", "MessageIncomplete", "ChecksumError"}

\* C17: each Leaf.exchange writes exactly one frame, from the Root's address
\* to the Leaf's address, and then attempts exactly one decode; when the
\* decode fails with TimeoutError, MessageIncomplete or ChecksumError the
\* failure is the outcome of exchange, and nothing more is written or read.
C17_ExchangeOneFrameOneDecode ==
    Exchanged =>
        /\ written = <<Frame(root_addr, last.tag.destination, last.tag.payload)>>
        /\ written[1][3] = root_addr
        /\ written[1][4] = last.tag.destination
        /\ last.calls = <<"send_msg", "read_msg">>
        /\ last.outcome \in DecodeFailures =>
              (last.ret = "none" /\ last.msg = NoMsg)
        /\ last.outcome = "ok" =>
              (last.ret = "XerxesMessage" /\ last.msg # NoMsg)

\* an exchange of the Root at 30 with the Leaf at 1 ended in TimeoutError
\* after one frame and one decode
C17_Witness ==
    /\ Exchanged
    /\ root_addr = 30 /\ last.tag.destination = 1
    /\ last.outcome = "TimeoutError"
    /\ Len(written) = 1
    /\ last.calls = <<"send_msg", "read_msg">>

\* C18: Root.sync and Leaf.reset_soft each write exactly one frame (sync to
\* the broadcast address, the soft reset to the Leaf's address) and read
\* nothing: the input of the port is after the call what it was before, so a
\* pending frame is still the next one decoded.
C18_SyncAndResetReadNothing ==
    [][(last'.op \in {"sync", "reset_soft"} /\ opened') =>
          /\ rx' = rx
          /\ read_msg(rx', 0) = read_msg(rx, 0)
          /\ last'.reads = <<>>
          /\ last'.calls = <<"send_msg">>
          /\ last'.outcome = "ok"
          /\ last'.op = "sync" =>
                written' = <<Frame(root_addr', BROADCAST_ADDR, PackH(MsgId_SYNC))>>
          /\ last'.op = "reset_soft" =>
                written' = <<Frame(root_addr', last'.tag.destination, PackH(MsgId_RESET_SOFT))>>
      ]_vars

\* sync has run while a whole frame was pending, and the frame is still there
C18_Witness ==
    /\ last.op = "sync" /\ opened
    /\ Len(written) = 1
    /\ rx # <<>>
    /\ read_msg(rx, 0).outcome = "ok"

\* Leaf.write_reg_net has just run on an opened port with an offset of 2 bytes
WroteRegister ==
    last.op = "write_reg_net" /\ opened /\ last.tag.pos \in 0..65535

\* C19: write_reg_net(offset, data) writes one frame whose payload is the
\* WRITE code, the offset as 2 bytes little-endian, then data; it waits for
\* one reply and returns True exactly when the decoded reply's kind is
\* ACK_OK, and False, not an error, for a decoded reply of another kind.
C19_WriteRegisterFrameAndAck ==
    WroteRegister =>
        /\ written = <<Frame(root_addr, last.tag.destination,
                             PackH(MsgId_WRITE)
                                 \o <<last.tag.pos % 256, last.tag.pos \div 256>>
                                 \o last.tag.payload)>>
        /\ last.calls = <<"send_msg", "read_msg">>
        /\ last.msg # NoMsg =>
              /\ last.outcome = "ok"
              /\ last.ret \in {"True", "False"}
              /\ (last.ret = "True") <=> (last.msg.message_id = MsgId_ACK_OK)
        /\ last.msg = NoMsg => (last.outcome # "ok" /\ last.ret = "none")

\* a write of 1.5 at offset 0 was answered by a reply of another kind
C19_Witness ==
    /\ WroteRegister
    /\ last.tag.pos = GAIN_PV0_OFFSET /\ last.tag.payload = <<0, 0, 192, 63>>
    /\ last.msg.message_id = MsgId_PING_REPLY
    /\ last.outcome = "ok" /\ last.ret = "False"

\* an Addr has just been constructed, or its construction refused
Constructed ==
    alast.arg.kind # "none"

\* C20: Addr(n) for an integer n succeeds if and only if 0 <= n <= 255; every
\* constructed Addr has a value in 0..255, its to_bytes() is the single byte
\* of that value, and Addr(a.to_bytes()) == a.
C20_AddrRange ==
    Constructed =>
        /\ alast.arg.kind = "int" =>
              ((alast.outcome = "ok") <=> (0 =< alast.arg.n /\ alast.arg.n =< 255))
        /\ alast.arg.kind = "int" /\ alast.outcome = "ok" => alast.value = alast.arg.n
        /\ alast.outcome = "ok" =>
              /\ alast.value \in 0..255
              /\ alast.bytes = <<alast.value>>
              /\ alast.again = alast.value
              /\ alast.equal

\* Addr(255) was constructed and its to_bytes() is the byte 0xFF
C20_Witness ==
    /\ alast.arg = IntArg(255)
    /\ alast.outcome = "ok"
    /\ alast.bytes = <<255>>
    /\ alast.equal

\* a set of a writable register with an int or a float has just been made
SetWritable ==
    /\ mlast.op = "set" /\ mlast.name \in DOMAIN XerxesMemoryMap
    /\ XerxesMemoryMap[mlast.name].write_access
    /\ mlast.value.kind \in {"int", "float"}

\* the logical kind of an element type: floating-point for the formats f and
\* d, integer for the others
LogicalKind(type) ==
    IF type._format \in {"f", "d"} THEN "float" ELSE "int"

\* C21: a set whose value's host kind (int or float) differs from the logical
\* kind of the register fails and the writer is not invoked; a set whose value
\* has the register's kind and fits its format invokes the writer exactly once,
\* with the register's offset and the value encoded in exactly the element
\* width bytes.
C21_SetValidatesKindThenWritesOnce ==
    SetWritable =>
        LET _attr == XerxesMemoryMap[mlast.name]
            type == TypeOf(mlast.name)
            _bv == struct_pack(type._format, mlast.value)
        IN  /\ mlast.value.kind # LogicalKind(type) =>
                  (mlast.outcome # "ok" /\ mlast.wcalls = <<>>)
            /\ (mlast.value.kind = LogicalKind(type) /\ _bv.outcome = "ok") =>
                  /\ mlast.wcalls = <<<<_attr.mem_addr, _bv.bytes>>>>
                  /\ Len(_bv.bytes) = type._length

\* a Leaf has just been compared with an object
Compared ==
    olast.op = "eq"

ConstructedElementType ==
    olast.op = "ElementType"

\* C24: the construction of an ElementType succeeds if its format is one of
\* the formats of the catalog and fails with AssertionError otherwise.
C24_ElementTypeFormatValidated ==
    ConstructedElementType =>
        IF olast.format \in CatalogFormats
        THEN olast.outcome = "ok"
        ELSE olast.outcome = "AssertionError"

\* send_msg or read_msg of the placeholder network has just been called
CalledFuture ==
    olast.op = "future"

\* C25: every call of send_msg and of read_msg of a FutureXerxesNetwork
\* fails with NotImplementedError, whatever its arguments.
C25_FutureAlwaysNotImplemented ==
    CalledFuture => olast.outcome = "NotImplementedError"

\* an integer of 0..255 has just been assigned to the address of a Leaf
AssignedAddress ==
    /\ olast.op = "set_address"
    /\ olast.arg.kind = "int" /\ olast.arg.n \in 0..255

\* C30: the assignment of an integer of 0..255 to the address of a Leaf
\* returns, and the address of the Leaf is then Addr of that integer.
C30_AddressAssignmentTakesEffect ==
    AssignedAddress =>
        /\ olast.outcome = "ok"
        /\ olast.after._address = olast.arg.n

\* a XerxesNetwork has just been constructed on a serial port
ConstructedNetwork ==
    olast.op = "XerxesNetwork" /\ olast.outcome = "ok"

\* C23: a construction for a port that has an instance returns that instance
\* and makes no other, and an instance that init has opened is still opened
\* afterwards; the instances of different ports are different objects.
C23_OneInstancePerPort ==
    /\ \A p, q \in DOMAIN instances : p # q => instances[p].id # instances[q].id
    /\ ConstructedNetwork =>
          /\ olast.port \in DOMAIN olast.before =>
                /\ olast.id = olast.before[olast.port].id
                /\ DOMAIN instances = DOMAIN olast.before
                /\ instances[olast.port]._opened = olast.before[olast.port]._opened
          /\ instances[olast.port].id = olast.id

\* the second construction on serial1, after init had opened the first
\* instance and with an instance of serial2 in being, returned the first
\* instance, still opened
C23_Witness ==
    /\ ConstructedNetwork /\ olast.port = "serial1"
    /\ "serial1" \in DOMAIN olast.before /\ "serial2" \in DOMAIN olast.before
    /\ olast.before["serial1"]._opened
    /\ instances["serial1"]._opened
    /\ olast.id = olast.before["serial1"].id

\* read_msg has just run, and a read of its SOH scan, before the read that
\* returned SOH, returned no byte
ZeroReadInScan ==
    /\ last.op = "read_msg" /\ opened
    /\ \E j \in 1..(IF last.sohAt = 0 THEN Len(last.reads) ELSE last.sohAt - 1) :
          last.reads[j] = 0

\* C26: the first read of the SOH scan that returns no byte makes read_msg
\* fail with TimeoutError: it is the last read of the call, and the call
\* returns no message.
C26_ZeroReadInScanIsTimeout ==
    ZeroReadInScan =>
        /\ last.outcome = "TimeoutError" /\ last.ret = "none"
        /\ \A j \in 1..(Len(last.reads) - 1) : last.reads[j] # 0

\* C27: a call of write_reg_net, whether its wait_for_reply returns a message
\* or fails with TimeoutError, MessageIncomplete or ChecksumError, leaves the
\* read timeout of the port at the value it had before the call.
C27_TimeoutRestored ==
    [][last'.op = "write_reg_net" => s_timeout' = s_timeout]_vars

\* exchange or write_reg_net of a Leaf has just returned a message
GotReply ==
    /\ last.op \in {"exchange", "write_reg_net"}
    /\ last.outcome = "ok"

\* C29: the message Leaf.exchange (and write_reg_net through write_reg)
\* returns is the reply to the request it sent: its source is the address of
\* the Leaf and its destination the address of the Root.
C29_ReplyIsFromTheLeaf ==
    GotReply =>
        /\ last.msg.source = last.tag.destination
        /\ last.msg.destination = last.tag.source

\* read_msg has run some number of times on a stream of encoded frames
DecodedStream ==
    olast.op = "stream" /\ olast.got # <<>>

\* C28: on a stream that is k frames send_msg wrote, one after the other (each
\* payload of at least 2 bytes), the i-th read_msg returns the i-th message
\* and leaves exactly the frames after it in the stream, and the read_msg
\* after the k-th fails with TimeoutError.
C28_FramesDecodedInOrder ==
    DecodedStream =>
        /\ \A i \in 1..Len(olast.got) :
              IF i =< Len(olast.sent)
              THEN /\ olast.got[i].outcome = "ok"
                   /\ olast.got[i].msg.source = olast.sent[i].source
                   /\ olast.got[i].msg.destination = olast.sent[i].destination
                   /\ olast.got[i].msg.message_id = UnpackH(olast.sent[i].payload)
                   /\ olast.got[i].msg.payload = After(olast.sent[i].payload, 2)
              ELSE olast.got[i].outcome = "TimeoutError"
        /\ rx = Encoded(After(olast.sent, Len(olast.got)))

\* two frames were decoded in order, the first with the byte SOH in its
\* payload, and the third read_msg timed out
C28_Witness ==
    /\ DecodedStream /\ Len(olast.sent) = 2 /\ Len(olast.got) = 3
    /\ olast.sent[1].payload = <<2, 0, SOH>>
    /\ olast.sent[1] # olast.sent[2]
    /\ olast.got[2].outcome = "ok" /\ olast.got[2].msg.source = olast.sent[2].source
    /\ olast.got[3].outcome = "TimeoutError"

\* a map has just been constructed
ConstructedMap ==
    olast.op = "construct"

\* C31: constructing a memory map with reader and writer primitives invokes
\* neither primitive, for the first map of the class and for every later map
\* of the same class; the reader is invoked only by a get and the writer only
\* by a set.
C31_ConstructionInvokesNoPrimitive ==
    /\ ConstructedMap => olast.rcalls = <<>> /\ olast.wcalls = <<>>
    /\ mlast.rcalls # <<>> => mlast.op = "get"
    /\ mlast.wcalls # <<>> => mlast.op = "set"

====
